---- MODULE Spec2Model ----
(***************************************************************************)
(* A model of app/src/main/cpp/ndi_wrapper.c: the JNI wrapper around the   *)
(* NDI engine.  Every exported function is modelled as a sequence of       *)
(* steps of the calling thread; a step boundary is placed wherever the     *)
(* code acquires a pthread mutex, so that the interleavings of threads and *)
(* the mutexes held during each engine call are real states of the model.  *)
(* The engine (the NDIlib functions), the allocator and the JVM are the    *)
(* environment: their results are chosen nondeterministically, and what    *)
(* they were asked to do is recorded in ghost variables (calls, libLog,    *)
(* engine, frames, heap).                                                  *)
(***************************************************************************)
EXTENDS Integers, Sequences, FiniteSets, TLC

(***************************************************************************)
(* Bounds of the model.                                                    *)
(***************************************************************************)
NThreads == 2        \* threads of the concurrent specifications
NFinders == 1        \* addresses calloc can give a NdiFinderWrapper
NReceivers == 2      \* addresses calloc can give a NdiReceiverWrapper
NVideoHandles == 1   \* addresses calloc can give a NdiVideoFrameHandle
NAudioHandles == 1   \* addresses calloc can give a NdiAudioFrameHandle
NInstances == 2      \* engine instances of each kind that can be live

Threads == 1 .. NThreads
FinderAddrs == 1 .. NFinders
ReceiverAddrs == 1 .. NReceivers
VideoAddrs == 1 .. NVideoHandles
AudioAddrs == 1 .. NAudioHandles
Instances == 1 .. NInstances

NULL == 0
JNI_FALSE == 0
JNI_TRUE == 1
NoThread == 0

(***************************************************************************)
(* Mutexes are named by pairs: the two global ones and one per wrapper.    *)
(***************************************************************************)
g_init_mutex == <<"init", 0>>
g_jni_cache_mutex == <<"cache", 0>>
FinderMutex(a) == <<"finder", a>>
(* One mutex for all the receivers. *)
ReceiverMutex_Shared(a) == <<"recv", 1>>

ReceiverMutex(a) == <<"recv", a>>
MutexIds ==
    {g_init_mutex, g_jni_cache_mutex}
        \cup {FinderMutex(a) : a \in FinderAddrs}
        \cup {ReceiverMutex(a) : a \in ReceiverAddrs}

VARIABLES
    g_initialized,      \* the library-initialized flag (0 or 1)
    g_jni_cache,        \* [initialized, refs]: g_jni_cache_initialized and the
                        \*   cached classes and constructors that are not NULL
    mutex,              \* mutex id -> the thread that holds it, NoThread if free
    minit,              \* the wrapper mutexes that are initialized (not destroyed)
    finderW,            \* address -> NdiFinderWrapper [alloc, finder]
    recvW,              \* address -> NdiReceiverWrapper [alloc, recv, surface_window]
    vh,                 \* address -> NdiVideoFrameHandle [alloc, recv, frame]
    ah,                 \* address -> NdiAudioFrameHandle
                        \*   [alloc, recv, frame, interleaved_data]
    engine,             \* ghost: the engine's own state
                        \*   [up, finders, recvs, windows]
    frames,             \* ghost: [video, audio, buffer]: per frame-handle address,
                        \*   whether the engine frame captured into it is still to
                        \*   be given back, and whether its interleaved buffer is
                        \*   allocated
    heap,               \* ghost: [twice, given]: the addresses free() was given
                        \*   while free, and the handles the caller was given
    libLog,             \* ghost: the last two engine library calls
    pc,                 \* thread -> where it is in the call it is making
    loc,                \* thread -> the locals of that call
    ret,                \* the call completed last, if no call has begun since:
                        \*   who made it, its arguments, its result and (ghost)
                        \*   the engine calls it made
    calls,              \* ghost: thread -> the engine calls made so far by the
                        \*   call it is in, in order
    fin,                \* the input of the pure-function specifications
    fout                \* and their output

libVars == <<g_initialized, libLog>>
cacheVars == <<g_jni_cache>>
wrapVars == <<finderW, recvW, minit>>
frameVars == <<vh, ah, frames>>
thrVars == <<pc, loc, ret, calls>>
pureVars == <<fin, fout>>
vars ==
    <<g_initialized, g_jni_cache, mutex, minit, finderW, recvW, vh, ah, engine,
      frames, heap, libLog, pc, loc, ret, calls, fin, fout>>

(***************************************************************************)
(* Frame descriptors.  One record stands for NDIlib_video_frame_v2_t and   *)
(* NDIlib_audio_frame_v2_t: a video frame uses p_data, FourCC,             *)
(* line_stride_in_bytes, yres and data_size_in_bytes, an audio frame       *)
(* p_data, sample_rate, no_channels and no_samples.  p_data is 0 for a     *)
(* null pointer and 1 for a pointer into engine memory.  ZeroFrame is what *)
(* calloc and memset leave.                                                *)
(***************************************************************************)
ZeroFrame ==
    [p_data |-> 0, FourCC |-> 0, line_stride_in_bytes |-> 0, yres |-> 0,
     data_size_in_bytes |-> 0, sample_rate |-> 0, no_channels |-> 0,
     no_samples |-> 0]

(***************************************************************************)
(* Locals, results and the call log.                                       *)
(***************************************************************************)
(* op: the function called; rp: its finder or receiver handle; fp: its     *)
(* frame handle (an argument, or the handle the call allocated); mtx, next: *)
(* the mutex being locked and the code after the lock; cont: the code after *)
(* ensure_jni_cache; path: why a captured frame is not handed out (0: it    *)
(* is); arg, src: the surface or the source name the call was given.        *)
NoLoc ==
    [op |-> "none", rp |-> NULL, fp |-> NULL, mtx |-> g_init_mutex,
     next |-> "idle", cont |-> "idle", path |-> 0, arg |-> 0, src |-> {}]

(* kind says how val is to be read: "void", "bool" (JNI_TRUE, JNI_FALSE),   *)
(* "handle" (0 or an address), "null" (a NULL object reference), "object"   *)
(* (a frame object: val is its frame handle; a performance object: val is   *)
(* its quality) or "array" (val is its length).                             *)
NoRet ==
    [t |-> NoThread, op |-> "none", rp |-> NULL, fp |-> NULL, kind |-> "void",
     val |-> 0, calls |-> <<>>, arg |-> 0, src |-> {}]

Held(t) == {m \in MutexIds : mutex[m] = t}

(* One engine call: the function, the instance it was given, the mutexes     *)
(* the caller held, the value of g_initialized at that moment, whether the   *)
(* instance (or the frame released) was live in the engine, and what the     *)
(* engine answered: a frame type and a frame, or the numbers n and m; src    *)
(* is the source name a connect was given.                                   *)
Call(t, fn, inst, live, ftype, frame) ==
    [fn |-> fn, inst |-> inst, held |-> Held(t), flag |-> g_initialized,
     live |-> live, ftype |-> ftype, frame |-> frame, n |-> 0, m |-> 0,
     src |-> {}]

Logged(t, c) == [calls EXCEPT ![t] = Append(@, c)]

(* The call of thread t returns val after making the engine calls `more`. *)
Return(t, kind, val, more) ==
    /\ pc' = [pc EXCEPT ![t] = "idle"]
    /\ ret' = [t |-> t, op |-> loc[t].op, rp |-> loc[t].rp, fp |-> loc[t].fp,
               kind |-> kind, val |-> val, calls |-> calls[t] \o more,
               arg |-> loc[t].arg, src |-> loc[t].src]
    /\ loc' = [loc EXCEPT ![t] = NoLoc]
    /\ calls' = [calls EXCEPT ![t] = <<>>]

(* A call that returns in its first step after the engine calls `made`. *)
Direct(t, op, rp, fp, kind, val, made) ==
    /\ pc[t] = "idle"
    /\ ret' = [t |-> t, op |-> op, rp |-> rp, fp |-> fp, kind |-> kind,
               val |-> val, calls |-> made, arg |-> 0, src |-> {}]
    /\ UNCHANGED <<pc, loc, calls>>

(* A call given the string `src` that returns in its first step, having    *)
(* called nothing.                                                         *)
Refused(t, op, rp, src, kind, val) ==
    /\ pc[t] = "idle"
    /\ ret' = [t |-> t, op |-> op, rp |-> rp, fp |-> NULL, kind |-> kind,
               val |-> val, calls |-> <<>>, arg |-> 0, src |-> src]
    /\ UNCHANGED <<pc, loc, calls>>

(* An early return that has called the engine first: what the early       *)
(* returns of the code must differ from.                                   *)
Immediate_Logged(t, op, rp, fp, kind, val) ==
    Direct(t, op, rp, fp, kind, val, <<Call(t, op, rp, FALSE, "", ZeroFrame)>>)

(* A call that returns in its first step, having touched nothing shared. *)
Immediate(t, op, rp, fp, kind, val) == Direct(t, op, rp, fp, kind, val, <<>>)

Goto(t, label) == pc' = [pc EXCEPT ![t] = label]

(* A call begins and goes on to `label` with the locals l. *)
Begin(t, label, l) ==
    /\ pc[t] = "idle"
    /\ pc' = [pc EXCEPT ![t] = label]
    /\ loc' = [loc EXCEPT ![t] = l]
    /\ ret' = NoRet
    /\ UNCHANGED calls

(* A return path that forgets the unlock. *)
Unlock_Forgotten(m) == mutex' = mutex

Unlock(m) == mutex' = [mutex EXCEPT ![m] = NoThread]


(* The variables a step that only moves its thread leaves alone. *)
shared ==
    <<g_initialized, libLog, g_jni_cache, mutex, minit, finderW, recvW, vh, ah,
      engine, frames, heap>>

(***************************************************************************)
(* pthread_mutex_lock: the thread waits until the mutex is free and takes  *)
(* it.  loc[t].mtx is the mutex and loc[t].next the code after the call.   *)
(* Locking a mutex that has been destroyed, in memory that has been freed, *)
(* is undefined: the call may go on as if the mutex were there, or the     *)
(* thread may never come back from it ("fault").                           *)
(***************************************************************************)
pthread_mutex_lock(t) ==
    /\ pc[t] = "lock"
    /\ mutex[loc[t].mtx] = NoThread
    /\ \E returns \in IF loc[t].mtx \in minit THEN {TRUE} ELSE BOOLEAN :
         IF returns
         THEN /\ mutex' = [mutex EXCEPT ![loc[t].mtx] = t]
              /\ Goto(t, loc[t].next)
         ELSE /\ Goto(t, "fault")
              /\ UNCHANGED mutex
    /\ UNCHANGED <<libVars, cacheVars, wrapVars, frameVars, engine, heap, loc,
                   ret, calls, pureVars>>

(* The locals of a call that starts by locking m and goes on at `next`. *)
Locking(op, rp, fp, m, next) ==
    [NoLoc EXCEPT !.op = op, !.rp = rp, !.fp = fp, !.mtx = m, !.next = next]

(***************************************************************************)
(* The library lifecycle, lines 222-273.                                   *)
(***************************************************************************)
(* One engine library call: whether it succeeded, the flag and the mutexes  *)
(* held when it was made, and whether the engine was initialized then.     *)
LibCall(t, fn, ok) ==
    [fn |-> fn, ok |-> ok, flag |-> g_initialized, held |-> Held(t),
     up |-> engine.up]

(* libLog keeps the last two engine library calls. *)
LibLogged(c) == IF Len(libLog) < 2 THEN Append(libLog, c) ELSE <<libLog[2], c>>

(* A wrapper that calls NDIlib_initialize() whatever the flag says. *)
AlreadyInitialized_Never == FALSE

(* initialize, line 229: if (g_initialized) *)
AlreadyInitialized == g_initialized # 0

(* destroy, line 255: if (!g_initialized) *)
NothingToDestroy == g_initialized = 0

initialize(t) ==
    /\ Begin(t, "lock", Locking("initialize", NULL, NULL, g_init_mutex,
                                "initialize_locked"))
    /\ UNCHANGED <<shared, pureVars>>

(* Lines 229-240: under g_init_mutex, the check and NDIlib_initialize(). *)
initialize_locked(t) ==
    /\ pc[t] = "initialize_locked"
    /\ IF AlreadyInitialized
       THEN /\ Unlock(g_init_mutex)
            /\ Return(t, "bool", JNI_TRUE, <<>>)
            /\ UNCHANGED <<libVars, engine>>
       ELSE \E ok \in BOOLEAN :
              LET c == Call(t, "NDIlib_initialize", NULL, TRUE, "", ZeroFrame)
              IN /\ libLog' = LibLogged(LibCall(t, "NDIlib_initialize", ok))
                 /\ UNCHANGED g_initialized
                 /\ IF ok
                    THEN /\ engine' = [engine EXCEPT !.up = TRUE]
                         /\ calls' = Logged(t, c)
                         /\ Goto(t, "initialize_set")
                         /\ UNCHANGED <<mutex, ret, loc>>
                    ELSE /\ Unlock(g_init_mutex)
                         /\ Return(t, "bool", JNI_FALSE, <<c>>)
                         /\ UNCHANGED engine
    /\ UNCHANGED <<cacheVars, wrapVars, frameVars, heap, pureVars>>

(* Lines 242-245. *)
initialize_set(t) ==
    /\ pc[t] = "initialize_set"
    /\ g_initialized' = 1
    /\ Unlock(g_init_mutex)
    /\ Return(t, "bool", JNI_TRUE, <<>>)
    /\ UNCHANGED <<libLog, cacheVars, wrapVars, frameVars, engine, heap,
                   pureVars>>

destroy(t) ==
    /\ Begin(t, "lock", Locking("destroy", NULL, NULL, g_init_mutex,
                                "destroy_locked"))
    /\ UNCHANGED <<shared, pureVars>>

(* Lines 255-262: under g_init_mutex, the check and NDIlib_destroy(). *)
destroy_locked(t) ==
    /\ pc[t] = "destroy_locked"
    /\ IF NothingToDestroy
       THEN /\ Unlock(g_init_mutex)
            /\ Return(t, "void", 0, <<>>)
            /\ UNCHANGED <<libVars, engine>>
       ELSE /\ libLog' = LibLogged(LibCall(t, "NDIlib_destroy", TRUE))
            /\ calls' = Logged(t, Call(t, "NDIlib_destroy", NULL, TRUE, "",
                                       ZeroFrame))
            /\ engine' = [engine EXCEPT !.up = FALSE]
            /\ Goto(t, "destroy_clear")
            /\ UNCHANGED <<g_initialized, mutex, ret, loc>>
    /\ UNCHANGED <<cacheVars, wrapVars, frameVars, heap, pureVars>>

(* Lines 263-265. *)
destroy_clear(t) ==
    /\ pc[t] = "destroy_clear"
    /\ g_initialized' = 0
    /\ Unlock(g_init_mutex)
    /\ Return(t, "void", 0, <<>>)
    /\ UNCHANGED <<libLog, cacheVars, wrapVars, frameVars, engine, heap,
                   pureVars>>

(* isInitialized, line 272: an unlocked read of the flag. *)
isInitialized(t) ==
    /\ Immediate(t, "isInitialized", NULL, NULL, "bool",
                 IF g_initialized # 0 THEN JNI_TRUE ELSE JNI_FALSE)
    /\ UNCHANGED <<shared, pureVars>>

(***************************************************************************)
(* The allocator and the engine's instances.  calloc gives an address that *)
(* is not in use (the lowest: which one it is cannot be told apart by the  *)
(* code), or fails; the engine gives an instance that is not live, or      *)
(* fails.  A freed address is given again, so a stale handle can come to   *)
(* name a newer object.                                                    *)
(***************************************************************************)
Lowest(S) == {x \in S : \A y \in S : x <= y}

FreeFinderAddrs == Lowest({a \in FinderAddrs : ~finderW[a].alloc})
FreeReceiverAddrs == Lowest({a \in ReceiverAddrs : ~recvW[a].alloc})
FreeVideoAddrs == Lowest({a \in VideoAddrs : ~vh[a].alloc})
FreeAudioAddrs == Lowest({a \in AudioAddrs : ~ah[a].alloc})
FreeFindInstances == Lowest({i \in Instances : ~engine.finders[i]})
FreeRecvInstances == Lowest({i \in Instances : ~engine.recvs[i]})

NoFinderW == [alloc |-> FALSE, finder |-> NULL]
NoRecvW == [alloc |-> FALSE, recv |-> NULL, surface_window |-> NULL]
NoVideoHandle == [alloc |-> FALSE, recv |-> NULL, frame |-> ZeroFrame]
NoAudioHandle ==
    [alloc |-> FALSE, recv |-> NULL, frame |-> ZeroFrame,
     interleaved_data |-> NULL]

(* A read of a field of a struct: its value while the struct is allocated,  *)
(* and any value of the field's type once the struct has been freed.        *)
FieldRead(alloc, value, type) == IF alloc THEN {value} ELSE type

(* free(p): p's address becomes free; a free of an address that is free     *)
(* already is a double free, which heap.twice records.                      *)
Freed(kind, a, alloc) ==
    [heap EXCEPT !.twice = IF alloc THEN @ ELSE @ \cup {<<kind, a>>}]

(* calloc gave the address a, which becomes a handle of the caller ...      *)
Given(kind, a) ==
    [twice |-> heap.twice \ {<<kind, a>>, <<"buffer", a>>},
     given |-> heap.given \cup {<<kind, a>>}]

(* ... unless the call that allocated it frees it before it returns.        *)
Withdrawn(kind, a, alloc) ==
    [Freed(kind, a, alloc) EXCEPT !.given = @ \ {<<kind, a>>}]

(***************************************************************************)
(* finderCreate, lines 286-340.                                            *)
(***************************************************************************)
(* Lines 296 and 459: if (!g_initialized), read without g_init_mutex. *)
CreateSeesUninitialized == g_initialized = 0

finderCreate(t) ==
    /\ IF CreateSeesUninitialized
       THEN Immediate(t, "finderCreate", NULL, NULL, "handle", NULL)
       ELSE Begin(t, "finderCreate_call", [NoLoc EXCEPT !.op = "finderCreate"])
    /\ UNCHANGED <<shared, pureVars>>

(* What a create has acquired when it is about to return: the engine       *)
(* instance, the wrapper struct, the initialized mutex.                    *)
Resources == {"instance", "struct", "mutex"}

(* The failure paths that give the engine instance back only. *)
FinderCreateReleases_InstanceOnly(finder, wrapper, mutex_ok) ==
    IF finder # NULL /\ (wrapper = NULL \/ ~mutex_ok)
    THEN {"instance"} ELSE {}

(* Lines 325-334: what the failure paths of finderCreate release.  Without *)
(* a wrapper the finder is destroyed (line 327); when pthread_mutex_init   *)
(* fails the finder is destroyed and the wrapper freed (lines 331-332).    *)
FinderCreateReleases(finder, wrapper, mutex_ok) ==
    IF finder = NULL THEN {}
    ELSE IF wrapper = NULL THEN {"instance"}
    ELSE IF ~mutex_ok THEN {"instance", "struct"}
    ELSE {}

(* Lines 315-339: NDIlib_find_create_v2, calloc, pthread_mutex_init. *)
finderCreate_call(t) ==
    /\ pc[t] = "finderCreate_call"
    /\ \E finder \in FreeFindInstances \cup {NULL},
          wrapper \in FreeFinderAddrs \cup {NULL}, mutex_ok \in BOOLEAN :
         LET created == Call(t, "NDIlib_find_create_v2", finder, TRUE, "",
                             ZeroFrame)
             undone == Call(t, "NDIlib_find_destroy", finder, TRUE, "",
                            ZeroFrame)
             failed == finder = NULL \/ wrapper = NULL \/ ~mutex_ok
             acquired ==
                 (IF finder # NULL THEN {"instance"} ELSE {})
                    \cup (IF finder # NULL /\ wrapper # NULL
                          THEN {"struct"} ELSE {})
                    \cup (IF ~failed THEN {"mutex"} ELSE {})
             released == FinderCreateReleases(finder, wrapper, mutex_ok)
             kept == acquired \ released
         IN /\ finder = NULL => wrapper = NULL /\ mutex_ok
            /\ wrapper = NULL => mutex_ok
            /\ engine' = IF "instance" \in kept
                         THEN [engine EXCEPT !.finders[finder] = TRUE]
                         ELSE engine
            /\ finderW' = IF "struct" \in kept
                          THEN [finderW EXCEPT ![wrapper] =
                                   [alloc |-> TRUE, finder |-> finder]]
                          ELSE finderW
            /\ minit' = IF "mutex" \in kept
                        THEN minit \cup {FinderMutex(wrapper)} ELSE minit
            /\ heap' = IF failed THEN heap ELSE Given("finder", wrapper)
            /\ Return(t, "handle", IF failed THEN NULL ELSE wrapper,
                      <<created>> \o (IF "instance" \in released
                                      THEN <<undone>> ELSE <<>>))
            /\ UNCHANGED recvW
    /\ UNCHANGED <<libVars, cacheVars, frameVars, mutex, pureVars>>

(***************************************************************************)
(* finderDestroy, lines 342-370.                                           *)
(***************************************************************************)
finderDestroy(t, finderPtr) ==
    /\ IF finderPtr = 0
       THEN Immediate(t, "finderDestroy", finderPtr, NULL, "void", 0)
       ELSE Begin(t, "lock", Locking("finderDestroy", finderPtr, NULL,
                                     FinderMutex(finderPtr),
                                     "finderDestroy_locked"))
    /\ UNCHANGED <<shared, pureVars>>

(* Line 362: if (wrapper->finder != NULL) *)
FinderPresent(finder) == finder # NULL

(* Lines 362-369: under the wrapper's mutex the instance is destroyed and   *)
(* nulled; then the mutex is unlocked and destroyed and the struct freed.   *)
finderDestroy_locked(t) ==
    /\ pc[t] = "finderDestroy_locked"
    /\ LET wrapper == loc[t].rp
           w == finderW[wrapper]
       IN \E finder \in FieldRead(w.alloc, w.finder, Instances \cup {NULL}) :
            LET destroyed ==
                    IF FinderPresent(finder)
                    THEN <<Call(t, "NDIlib_find_destroy", finder,
                                engine.finders[finder], "", ZeroFrame)>>
                    ELSE <<>>
            IN /\ engine' = [engine EXCEPT
                               !.finders = IF FinderPresent(finder)
                                           THEN [@ EXCEPT ![finder] = FALSE]
                                           ELSE @]
               /\ Unlock(FinderMutex(wrapper))
               /\ minit' = minit \ {FinderMutex(wrapper)}
               /\ heap' = Freed("finder", wrapper, w.alloc)
               /\ finderW' = [finderW EXCEPT ![wrapper] = NoFinderW]
               /\ Return(t, "void", 0, destroyed)
    /\ UNCHANGED <<libVars, cacheVars, recvW, frameVars, pureVars>>

(***************************************************************************)
(* receiverCreate, lines 448-506.  The bandwidth and the colour format are *)
(* mapped (map_bandwidth, map_color_format) into the settings handed to    *)
(* the engine and decide nothing else in the function.                     *)
(***************************************************************************)
receiverCreate(t) ==
    /\ IF CreateSeesUninitialized
       THEN Immediate(t, "receiverCreate", NULL, NULL, "handle", NULL)
       ELSE Begin(t, "receiverCreate_call",
                  [NoLoc EXCEPT !.op = "receiverCreate"])
    /\ UNCHANGED <<shared, pureVars>>

(* Lines 472-503: what the failure paths of receiverCreate release.  When  *)
(* pthread_mutex_init fails the wrapper is freed (line 479); when the      *)
(* engine creates no receiver the mutex is destroyed and the wrapper freed *)
(* (lines 500-501).                                                        *)
ReceiverCreateReleases(wrapper, mutex_ok, recv) ==
    IF wrapper = NULL THEN {}
    ELSE IF ~mutex_ok THEN {"struct"}
    ELSE IF recv = NULL THEN {"mutex", "struct"}
    ELSE {}

(* Lines 471-505: calloc, pthread_mutex_init, NDIlib_recv_create_v3. *)
receiverCreate_call(t) ==
    /\ pc[t] = "receiverCreate_call"
    /\ \E wrapper \in FreeReceiverAddrs \cup {NULL}, mutex_ok \in BOOLEAN,
          recv \in FreeRecvInstances \cup {NULL} :
         LET created == Call(t, "NDIlib_recv_create_v3", recv, TRUE, "",
                             ZeroFrame)
             reached == wrapper # NULL /\ mutex_ok
             failed == ~reached \/ recv = NULL
             acquired ==
                 (IF wrapper # NULL THEN {"struct"} ELSE {})
                    \cup (IF reached THEN {"mutex"} ELSE {})
                    \cup (IF ~failed THEN {"instance"} ELSE {})
             released == ReceiverCreateReleases(wrapper, mutex_ok, recv)
             kept == acquired \ released
         IN /\ wrapper = NULL => mutex_ok
            /\ ~reached => recv = NULL
            /\ engine' = IF "instance" \in kept
                         THEN [engine EXCEPT !.recvs[recv] = TRUE]
                         ELSE engine
            /\ recvW' = IF "struct" \in kept
                        THEN [recvW EXCEPT ![wrapper] =
                                 [alloc |-> TRUE, recv |-> recv,
                                  surface_window |-> NULL]]
                        ELSE recvW
            /\ minit' = IF "mutex" \in kept
                        THEN minit \cup {ReceiverMutex(wrapper)} ELSE minit
            /\ heap' = IF failed THEN heap ELSE Given("recv", wrapper)
            /\ Return(t, "handle", IF failed THEN NULL ELSE wrapper,
                      IF reached THEN <<created>> ELSE <<>>)
            /\ UNCHANGED finderW
    /\ UNCHANGED <<libVars, cacheVars, frameVars, mutex, pureVars>>

(***************************************************************************)
(* receiverDestroy, lines 508-541.                                         *)
(***************************************************************************)
receiverDestroy(t, receiverPtr) ==
    /\ IF receiverPtr = 0
       THEN Immediate(t, "receiverDestroy", receiverPtr, NULL, "void", 0)
       ELSE Begin(t, "lock", Locking("receiverDestroy", receiverPtr, NULL,
                                     ReceiverMutex(receiverPtr),
                                     "receiverDestroy_locked"))
    /\ UNCHANGED <<shared, pureVars>>

(* Line 533: if (wrapper->recv != NULL) *)
RecvPresent(recv) == recv # NULL

(* Lines 529-540: under the wrapper's mutex the window is released and the  *)
(* instance destroyed; then the mutex is destroyed and the struct freed.    *)
receiverDestroy_locked(t) ==
    /\ pc[t] = "receiverDestroy_locked"
    /\ LET wrapper == loc[t].rp
           w == recvW[wrapper]
       IN \E recv \in FieldRead(w.alloc, w.recv, Instances \cup {NULL}),
             window \in FieldRead(w.alloc, w.surface_window, {NULL, 1}) :
            LET released ==
                    IF window # NULL
                    THEN <<Call(t, "ANativeWindow_release", window,
                                engine.windows > 0, "", ZeroFrame)>>
                    ELSE <<>>
                destroyed ==
                    IF RecvPresent(recv)
                    THEN <<Call(t, "NDIlib_recv_destroy", recv,
                                engine.recvs[recv], "", ZeroFrame)>>
                    ELSE <<>>
            IN /\ engine' =
                    [engine EXCEPT
                       !.windows = IF window # NULL /\ @ > 0 THEN @ - 1 ELSE @,
                       !.recvs = IF RecvPresent(recv)
                                 THEN [@ EXCEPT ![recv] = FALSE] ELSE @]
               /\ Unlock(ReceiverMutex(wrapper))
               /\ minit' = minit \ {ReceiverMutex(wrapper)}
               /\ heap' = Freed("recv", wrapper, w.alloc)
               /\ recvW' = [recvW EXCEPT ![wrapper] = NoRecvW]
               /\ Return(t, "void", 0, released \o destroyed)
    /\ UNCHANGED <<libVars, cacheVars, finderW, frameVars, pureVars>>

(***************************************************************************)
(* ensure_jni_cache, lines 137-216.  The nine steps of the resolution are  *)
(* FindClass, NewGlobalRef and GetMethodID for each of the three classes;  *)
(* six of them store their result in a global, NULL included.              *)
(***************************************************************************)
CacheGlobals ==
    <<"", "g_class_VideoFrame", "g_ctor_VideoFrame",
      "", "g_class_AudioFrame", "g_ctor_AudioFrame",
      "", "g_class_ReceiverPerformance", "g_ctor_ReceiverPerformance">>

AllCacheRefs == {CacheGlobals[i] : i \in 1 .. Len(CacheGlobals)} \ {""}

(* The globals that are not NULL after a resolution whose step k failed    *)
(* (k = 0: none failed): the steps before k stored a reference, step k     *)
(* stored NULL, the steps after k did not run.                             *)
Resolved(refs, k) ==
    LET ran == IF k = 0 THEN Len(CacheGlobals) ELSE k - 1
    IN (refs \cup ({CacheGlobals[i] : i \in 1 .. ran} \ {""}))
           \ (IF k = 0 THEN {} ELSE {CacheGlobals[k]})

(* The flag never seen set. *)
CacheReady_Never == FALSE

(* Lines 138 and 143: if (g_jni_cache_initialized) *)
CacheReady == g_jni_cache.initialized # 0

(* A call that needs the cache: the fast path goes on at `cont`, the slow  *)
(* path locks g_jni_cache_mutex first.                                     *)
EnsureCache(t, op, rp, cont) ==
    IF CacheReady
    THEN Begin(t, cont, [NoLoc EXCEPT !.op = op, !.rp = rp])
    ELSE Begin(t, "lock",
               [NoLoc EXCEPT !.op = op, !.rp = rp, !.mtx = g_jni_cache_mutex,
                             !.next = "ensure_jni_cache_locked", !.cont = cont])

(* The first failure path returning with the mutex locked. *)
CacheUnlock_FirstFailureKeeps(k) ==
    IF k = 1 THEN UNCHANGED mutex ELSE Unlock(g_jni_cache_mutex)

(* Lines 144-214: every path out of the critical section unlocks. *)
CacheUnlock(k) == Unlock(g_jni_cache_mutex)

(* The flag set although the last look-up failed. *)
MarksReady_LastStepFailed(k) == k \in {0, Len(CacheGlobals)}

(* Line 213: g_jni_cache_initialized = 1 is reached when no step failed. *)
MarksReady(k) == k = 0

(* Lines 143-215, under g_jni_cache_mutex; k is the step of the resolution *)
(* that fails, 0 if none does.                                             *)
ensure_jni_cache_locked(t, k) ==
    /\ pc[t] = "ensure_jni_cache_locked"
    /\ k \in 0 .. Len(CacheGlobals)
    /\ CacheUnlock(k)
    /\ IF CacheReady
       THEN /\ Goto(t, loc[t].cont)
            /\ UNCHANGED <<g_jni_cache, loc, ret, calls>>
       ELSE /\ g_jni_cache' =
                  [initialized |-> IF MarksReady(k) THEN 1
                                   ELSE g_jni_cache.initialized,
                   refs |-> Resolved(g_jni_cache.refs, k)]
            /\ IF k = 0
               THEN /\ Goto(t, loc[t].cont)
                    /\ UNCHANGED <<loc, ret, calls>>
               ELSE Return(t, "null", 0, <<>>)
    /\ UNCHANGED <<libVars, wrapVars, frameVars, engine, heap, pureVars>>

(***************************************************************************)
(* finderWaitForSources, lines 372-395, and finderGetSources, lines        *)
(* 397-442.                                                                *)
(***************************************************************************)
MaxSources == 2      \* sources the engine reports at most

(* Lines 387 and 410: wrapper->finder, read before the mutex is taken. *)
FinderField(a) ==
    FieldRead(finderW[a].alloc, finderW[a].finder, Instances \cup {NULL})

(* Lines 558, 599, 623, 773, 925 and 983: wrapper->recv, likewise. *)
RecvField(a) == FieldRead(recvW[a].alloc, recvW[a].recv, Instances \cup {NULL})

finderWaitForSources(t, finderPtr) ==
    /\ IF finderPtr = 0
       THEN Immediate(t, "finderWaitForSources", finderPtr, NULL, "bool",
                      JNI_FALSE)
       ELSE \E finder \in FinderField(finderPtr) :
              IF finder = NULL
              THEN Immediate(t, "finderWaitForSources", finderPtr, NULL, "bool",
                             JNI_FALSE)
              ELSE Begin(t, "lock",
                         Locking("finderWaitForSources", finderPtr, NULL,
                                 FinderMutex(finderPtr),
                                 "finderWaitForSources_locked"))
    /\ UNCHANGED <<shared, pureVars>>

(* Lines 392-394. *)
finderWaitForSources_locked(t) ==
    /\ pc[t] = "finderWaitForSources_locked"
    /\ \E finder \in FinderField(loc[t].rp), changed \in BOOLEAN :
         /\ Unlock(FinderMutex(loc[t].rp))
         /\ Return(t, "bool", IF changed THEN JNI_TRUE ELSE JNI_FALSE,
                   <<Call(t, "NDIlib_find_wait_for_sources", finder,
                          finder # NULL /\ engine.finders[finder], "",
                          ZeroFrame)>>)
    /\ UNCHANGED <<libVars, cacheVars, wrapVars, frameVars, engine, heap,
                   pureVars>>

finderGetSources(t, finderPtr) ==
    /\ IF finderPtr = 0
       THEN Immediate(t, "finderGetSources", finderPtr, NULL, "null", 0)
       ELSE \E finder \in FinderField(finderPtr) :
              IF finder = NULL
              THEN Immediate(t, "finderGetSources", finderPtr, NULL, "null", 0)
              ELSE Begin(t, "lock",
                         Locking("finderGetSources", finderPtr, NULL,
                                 FinderMutex(finderPtr),
                                 "finderGetSources_locked"))
    /\ UNCHANGED <<shared, pureVars>>

(* The loop of line 431 leaving the last source out. *)
CopyIndexes_SkipLast(no_sources) == 0 .. no_sources - 2

(* Line 431: for (i = 0; i < no_sources; i++). *)
CopyIndexes(no_sources) == 0 .. no_sources - 1

(* Lines 416-441: the engine reports no_sources sources; FindClass or      *)
(* NewObjectArray may fail; the loop makes a string of each name, which    *)
(* NewStringUTF may fail to do (the indexes not in `named`), and stores    *)
(* it in the array; every path unlocks before it returns.                  *)
finderGetSources_locked(t) ==
    /\ pc[t] = "finderGetSources_locked"
    /\ \E finder \in FinderField(loc[t].rp), no_sources \in 0 .. MaxSources,
          jni_ok \in BOOLEAN :
         \E named \in SUBSET CopyIndexes(no_sources) :
            LET got == [Call(t, "NDIlib_find_get_current_sources", finder,
                             finder # NULL /\ engine.finders[finder], "",
                             ZeroFrame) EXCEPT !.n = no_sources]
                copies ==
                    [k \in 1 .. Cardinality(CopyIndexes(no_sources)) |->
                       [Call(t, "NewStringUTF", finder, (k - 1) \in named, "",
                             ZeroFrame) EXCEPT !.n = k - 1]]
            IN /\ ~jni_ok => named = {}
               /\ Unlock(FinderMutex(loc[t].rp))
               /\ IF jni_ok
                  THEN Return(t, "array", no_sources, <<got>> \o copies)
                  ELSE Return(t, "null", 0, <<got>>)
    /\ UNCHANGED <<libVars, cacheVars, wrapVars, frameVars, engine, heap,
                   pureVars>>

(***************************************************************************)
(* receiverConnect, lines 543-583, and receiverDisconnect, lines 585-607.  *)
(* A nullable string is a set: {} is NULL, {""} the empty string.          *)
(***************************************************************************)
SourceNames == {{}, {""}, {"cam"}}

(* jstring_to_cstring, lines 91-102: NULL for a NULL jstring, and NULL     *)
(* when GetStringUTFChars or malloc fails.                                 *)
jstring_to_cstring(jstr) == {jstr, {}}

(* A test that takes the empty string for a name. *)
is_empty_string_NullOnly(s) == s = {}

(* is_empty_string, lines 111-113. *)
is_empty_string(s) == s = {} \/ s = {""}

receiverConnect(t, receiverPtr, sourceName) ==
    /\ IF receiverPtr = 0
       THEN Immediate(t, "receiverConnect", receiverPtr, NULL, "bool", JNI_FALSE)
       ELSE \E recv \in RecvField(receiverPtr),
               source_str \in jstring_to_cstring(sourceName) :
              IF recv = NULL \/ is_empty_string(source_str)
              THEN Refused(t, "receiverConnect", receiverPtr, sourceName,
                           "bool", JNI_FALSE)
              ELSE Begin(t, "lock",
                         [Locking("receiverConnect", receiverPtr, NULL,
                                  ReceiverMutex(receiverPtr),
                                  "receiverConnect_locked")
                            EXCEPT !.src = source_str])
    /\ UNCHANGED <<shared, pureVars>>

(* Lines 578-582. *)
receiverConnect_locked(t) ==
    /\ pc[t] = "receiverConnect_locked"
    /\ \E recv \in RecvField(loc[t].rp) :
         /\ Unlock(ReceiverMutex(loc[t].rp))
         /\ Return(t, "bool", JNI_TRUE,
                   <<[Call(t, "NDIlib_recv_connect", recv,
                           recv # NULL /\ engine.recvs[recv], "source",
                           ZeroFrame) EXCEPT !.src = loc[t].src]>>)
    /\ UNCHANGED <<libVars, cacheVars, wrapVars, frameVars, engine, heap,
                   pureVars>>

receiverDisconnect(t, receiverPtr) ==
    /\ IF receiverPtr = 0
       THEN Immediate(t, "receiverDisconnect", receiverPtr, NULL, "void", 0)
       ELSE \E recv \in RecvField(receiverPtr) :
              IF recv = NULL
              THEN Immediate(t, "receiverDisconnect", receiverPtr, NULL, "void",
                             0)
              ELSE Begin(t, "lock",
                         Locking("receiverDisconnect", receiverPtr, NULL,
                                 ReceiverMutex(receiverPtr),
                                 "receiverDisconnect_locked"))
    /\ UNCHANGED <<shared, pureVars>>

(* Lines 605-606: NDIlib_recv_connect(wrapper->recv, NULL). *)
receiverDisconnect_locked(t) ==
    /\ pc[t] = "receiverDisconnect_locked"
    /\ \E recv \in RecvField(loc[t].rp) :
         /\ Unlock(ReceiverMutex(loc[t].rp))
         /\ Return(t, "void", 0,
                   <<Call(t, "NDIlib_recv_connect", recv,
                          recv # NULL /\ engine.recvs[recv], "NULL",
                          ZeroFrame)>>)
    /\ UNCHANGED <<libVars, cacheVars, wrapVars, frameVars, engine, heap,
                   pureVars>>

(***************************************************************************)
(* receiverIsConnected, lines 969-991.                                     *)
(***************************************************************************)
MaxConnections == 1  \* connections the engine reports at most

ConnectionCounts == -1 .. MaxConnections

receiverIsConnected(t, receiverPtr) ==
    /\ IF receiverPtr = 0
       THEN Immediate(t, "receiverIsConnected", receiverPtr, NULL, "bool",
                      JNI_FALSE)
       ELSE \E recv \in RecvField(receiverPtr) :
              IF recv = NULL
              THEN Immediate(t, "receiverIsConnected", receiverPtr, NULL, "bool",
                             JNI_FALSE)
              ELSE Begin(t, "lock",
                         Locking("receiverIsConnected", receiverPtr, NULL,
                                 ReceiverMutex(receiverPtr),
                                 "receiverIsConnected_locked"))
    /\ UNCHANGED <<shared, pureVars>>

(* Lines 988-990. *)
receiverIsConnected_locked(t) ==
    /\ pc[t] = "receiverIsConnected_locked"
    /\ \E recv \in RecvField(loc[t].rp), connections \in ConnectionCounts :
         /\ Unlock(ReceiverMutex(loc[t].rp))
         /\ Return(t, "bool", IF connections > 0 THEN JNI_TRUE ELSE JNI_FALSE,
                   <<[Call(t, "NDIlib_recv_get_no_connections", recv,
                           recv # NULL /\ engine.recvs[recv], "", ZeroFrame)
                        EXCEPT !.n = connections]>>)
    /\ UNCHANGED <<libVars, cacheVars, wrapVars, frameVars, engine, heap,
                   pureVars>>

(***************************************************************************)
(* The quality score, lines 943-954.                                       *)
(*                                                                         *)
(* q = (int)(100.0 - (drop_rate * 100.0)), drop_rate = dropped / total,    *)
(* in IEEE-754 double arithmetic.  The conversion to int truncates toward  *)
(* zero.  The true value is 100 * (total - dropped) / total; the double    *)
(* the code computes is that value rounded twice or three times, and where *)
(* the true value is a whole number k the double can come out just below   *)
(* k, so that the truncation gives k - 1.  A compiler may contract the     *)
(* multiplication and the subtraction into one fused operation (one        *)
(* rounding less); which it does is a property of the build.  Shortfall    *)
(* lists, for each build, the pairs <<total, dropped>> with                *)
(* 0 < dropped < total <= 24 for which the double is below the true whole  *)
(* number, as IEEE-754 evaluation gives them.                              *)
(***************************************************************************)
Builds == {"plain", "fused"}

Shortfall(build) ==
    IF build = "plain"
    THEN {<<20, 11>>}
    ELSE {<<5, 4>>, <<10, 8>>, <<10, 9>>, <<15, 12>>, <<20, 11>>, <<20, 16>>,
          <<20, 18>>}

(* (int)x for the rational x = num / den, den > 0: truncation toward zero. *)
Truncated(num, den) ==
    IF num >= 0 THEN num \div den ELSE -((-num) \div den)

(* A clamp without line 949. *)
Clamped_Below(q) == IF q < 0 THEN 0 ELSE q

(* Lines 948-949. *)
Clamped(q) == IF q < 0 THEN 0 ELSE IF q > 100 THEN 100 ELSE q

(* The range of int. *)
IntMax == 2147483647
IntMin == (0 - IntMax) - 1

(* Line 947: the double to convert has a whole part that no int holds, and  *)
(* the conversion is undefined.  The whole part is out of range from a      *)
(* ratio |dropped| / total of about 21474836; the counts the model draws    *)
(* are either far below it or far above it.                                 *)
Unrepresentable(total, dropped) ==
    (IF dropped < 0 THEN 0 - dropped ELSE dropped) \div total >= 21474838

(* What the builds make of an undefined conversion: the conversion          *)
(* instruction of ARM saturates, that of x86 answers INT_MIN.               *)
Conversions == {"saturating", "indefinite"}

OutOfRange(conv, dropped) ==
    IF conv = "saturating" /\ dropped < 0 THEN IntMax ELSE IntMin

(* Line 947, for total > 0. *)
DropScore(build, conv, total, dropped) ==
    IF Unrepresentable(total, dropped)
    THEN OutOfRange(conv, dropped)
    ELSE Truncated(100 * (total - dropped), total)
           - (IF <<total, dropped>> \in Shortfall(build) THEN 1 ELSE 0)

Quality(build, conv, connections, total, dropped) ==
    IF connections > 0
    THEN IF total > 0
         THEN Clamped(DropScore(build, conv, total, dropped))
         ELSE 100
    ELSE 0

(***************************************************************************)
(* receiverGetPerformance, lines 912-967.                                  *)
(***************************************************************************)
receiverGetPerformance(t, receiverPtr) ==
    /\ IF receiverPtr = 0
       THEN Immediate(t, "receiverGetPerformance", receiverPtr, NULL, "null", 0)
       ELSE \E recv \in RecvField(receiverPtr) :
              IF recv = NULL
              THEN Immediate(t, "receiverGetPerformance", receiverPtr, NULL,
                             "null", 0)
              ELSE EnsureCache(t, "receiverGetPerformance", receiverPtr,
                               "receiverGetPerformance_cached")
    /\ UNCHANGED <<shared, pureVars>>

(* Lines 933-938. *)
receiverGetPerformance_cached(t) ==
    /\ pc[t] = "receiverGetPerformance_cached"
    /\ Goto(t, "lock")
    /\ loc' = [loc EXCEPT ![t].mtx = ReceiverMutex(loc[t].rp),
                          ![t].next = "receiverGetPerformance_locked"]
    /\ UNCHANGED <<shared, ret, calls, pureVars>>

(* The mutex released after the first read. *)
StillLocked_Released(m) == Unlock(m)

(* Lines 939-940: no unlock between the two reads. *)
StillLocked(m) == UNCHANGED mutex

(* Line 939, under the wrapper's mutex: total and dropped are what the     *)
(* engine reports.                                                         *)
receiverGetPerformance_locked(t, total, dropped) ==
    /\ pc[t] = "receiverGetPerformance_locked"
    /\ \E recv \in RecvField(loc[t].rp) :
         LET live == recv # NULL /\ engine.recvs[recv]
             read == [Call(t, "NDIlib_recv_get_performance", recv, live, "",
                           ZeroFrame) EXCEPT !.n = total, !.m = dropped]
         IN calls' = Logged(t, read)
    /\ StillLocked(ReceiverMutex(loc[t].rp))
    /\ Goto(t, "receiverGetPerformance_count")
    /\ UNCHANGED <<libVars, cacheVars, wrapVars, frameVars, engine, heap, loc,
                   ret, pureVars>>

(* Lines 940-966: the connection count in the same critical section, then, *)
(* with the mutex released, the score and NewObject, whose result (NULL if *)
(* it failed) is returned.  connections is what the engine reports.        *)
receiverGetPerformance_count(t, connections) ==
    /\ pc[t] = "receiverGetPerformance_count"
    /\ \E recv \in RecvField(loc[t].rp), build \in Builds,
          conv \in Conversions, perfObj \in BOOLEAN :
         LET live == recv # NULL /\ engine.recvs[recv]
             read == calls[t][Len(calls[t])]
             count == [Call(t, "NDIlib_recv_get_no_connections", recv, live, "",
                            ZeroFrame) EXCEPT !.n = connections]
         IN /\ Unlock(ReceiverMutex(loc[t].rp))
            /\ IF perfObj
               THEN Return(t, "object",
                           Quality(build, conv, connections, read.n, read.m),
                           <<count>>)
               ELSE Return(t, "null", 0, <<count>>)
    /\ UNCHANGED <<libVars, cacheVars, wrapVars, frameVars, engine, heap,
                   pureVars>>

(***************************************************************************)
(* receiverSetSurface, lines 993-1038.  A surface is NULL or 1; the engine *)
(* counts the native windows acquired and not released.                    *)
(***************************************************************************)
Surfaces == {NULL, 1}

(* The old window released on the failure path as well. *)
ReleasesOld_OnFailure(old, surface, window) == old # NULL

(* Lines 1015-1017 and 1030-1032: the window held is released when the     *)
(* surface is NULL or when a window was got from the new surface.          *)
ReleasesOld(old, surface, window) ==
    old # NULL /\ (surface = NULL \/ window # NULL)

receiverSetSurface(t, receiverPtr, surface) ==
    /\ IF receiverPtr = 0
       THEN Immediate(t, "receiverSetSurface", receiverPtr, NULL, "bool",
                      JNI_FALSE)
       ELSE Begin(t, "lock",
                  [Locking("receiverSetSurface", receiverPtr, NULL,
                           ReceiverMutex(receiverPtr),
                           "receiverSetSurface_locked")
                     EXCEPT !.arg = surface])
    /\ UNCHANGED <<shared, pureVars>>

(* Lines 1013-1037. *)
receiverSetSurface_locked(t) ==
    /\ pc[t] = "receiverSetSurface_locked"
    /\ LET wrapper == loc[t].rp
           w == recvW[wrapper]
           surface == loc[t].arg
       IN \E old \in FieldRead(w.alloc, w.surface_window, Surfaces),
             window \in IF surface = NULL THEN {NULL} ELSE {NULL, 1} :
            LET released ==
                    IF ReleasesOld(old, surface, window)
                    THEN <<Call(t, "ANativeWindow_release", old,
                                engine.windows > 0, "", ZeroFrame)>>
                    ELSE <<>>
                acquired ==
                    IF surface # NULL
                    THEN <<Call(t, "ANativeWindow_fromSurface", window, TRUE,
                                "", ZeroFrame)>>
                    ELSE <<>>
                kept == IF surface # NULL /\ window = NULL THEN old ELSE window
            IN /\ engine' =
                    [engine EXCEPT
                       !.windows =
                          (IF released # <<>> /\ @ > 0 THEN @ - 1 ELSE @)
                             + (IF window # NULL THEN 1 ELSE 0)]
               /\ recvW' = IF w.alloc
                           THEN [recvW EXCEPT ![wrapper].surface_window = kept]
                           ELSE recvW
               /\ Unlock(ReceiverMutex(wrapper))
               /\ Return(t, "bool",
                         IF surface # NULL /\ window = NULL
                         THEN JNI_FALSE ELSE JNI_TRUE,
                         acquired \o released)
    /\ UNCHANGED <<libVars, cacheVars, finderW, minit, frameVars, heap,
                   pureVars>>

(***************************************************************************)
(* The video buffer size, lines 654-673.                                   *)
(***************************************************************************)
FOURCC_H264 == 875967048     \* 0x34363248
FOURCC_HEVC == 1129727304    \* 0x43564548
(* A tag that is neither of the two: the frame is not compressed. *)
FOURCC_OTHER == FOURCC_H264 + 1

(* A tag test that knows H264 only. *)
is_compressed_H264Only(fourcc) == fourcc = FOURCC_H264

(* Line 655. *)
is_compressed(fourcc) == fourcc = FOURCC_H264 \/ fourcc = FOURCC_HEVC

(* Lines 666-673.  The arithmetic is in jlong, where the product of two     *)
(* ints cannot overflow.                                                    *)
BufferSize(frame) ==
    IF is_compressed(frame.FourCC)
    THEN frame.data_size_in_bytes
    ELSE LET stride == frame.line_stride_in_bytes
             abs_stride == IF stride < 0 THEN -stride ELSE stride
         IN abs_stride * frame.yres

(* Line 657: if (handle->frame.p_data == NULL) *)
VideoDataMissing(frame) == frame.p_data = NULL

(* A size test that lets a size of 0 through. *)
InvalidBufferSize_Negative(buffer_size) == buffer_size < 0

(* Line 675: if (buffer_size <= 0) *)
InvalidBufferSize(buffer_size) == buffer_size <= 0

(* A type test that takes every frame the engine gives for the one asked   *)
(* for.                                                                     *)
NotRequested_OnlyNone(frame_type, wanted) == frame_type = "none"

(* Lines 649 and 799: the frame type is not the one asked for. *)
NotRequested(frame_type, wanted) == frame_type # wanted

(***************************************************************************)
(* What NDIlib_recv_capture_v2 can answer.  A frame type other than the    *)
(* one whose structure was passed leaves that structure as it was.         *)
(***************************************************************************)
FrameTypes == {"none", "video", "audio", "metadata", "error", "status_change"}

VideoFrame(p, fourcc, stride, yres, size) ==
    [ZeroFrame EXCEPT !.p_data = p, !.FourCC = fourcc,
                      !.line_stride_in_bytes = stride, !.yres = yres,
                      !.data_size_in_bytes = size]

VideoFrames ==
    {VideoFrame(1, FOURCC_OTHER, 2, 2, 0), VideoFrame(1, FOURCC_OTHER, -2, 2, 0),
     VideoFrame(1, FOURCC_OTHER, 0, 2, 0), VideoFrame(1, FOURCC_OTHER, 2, -2, 0),
     VideoFrame(1, FOURCC_H264, 0, 2, 3), VideoFrame(1, FOURCC_HEVC, 2, 2, 0),
     VideoFrame(NULL, FOURCC_OTHER, 2, 2, 0)}

Captured(frame_type, wanted, Frames) ==
    IF frame_type = wanted THEN Frames ELSE {ZeroFrame}

(***************************************************************************)
(* receiverCaptureVideo, lines 609-726.                                    *)
(***************************************************************************)
receiverCaptureVideo(t, receiverPtr) ==
    /\ IF receiverPtr = 0
       THEN Immediate(t, "receiverCaptureVideo", receiverPtr, NULL, "null", 0)
       ELSE \E recv \in RecvField(receiverPtr) :
              IF recv = NULL
              THEN Immediate(t, "receiverCaptureVideo", receiverPtr, NULL,
                             "null", 0)
              ELSE EnsureCache(t, "receiverCaptureVideo", receiverPtr,
                               "receiverCaptureVideo_alloc")
    /\ UNCHANGED <<shared, pureVars>>

(* Lines 631-639: calloc, handle->recv = wrapper->recv, memset. *)
receiverCaptureVideo_alloc(t) ==
    /\ pc[t] = "receiverCaptureVideo_alloc"
    /\ \E handle \in FreeVideoAddrs \cup {NULL}, recv \in RecvField(loc[t].rp) :
         IF handle = NULL
         THEN /\ Return(t, "null", 0, <<>>)
              /\ UNCHANGED <<frameVars, heap>>
         ELSE /\ vh' = [vh EXCEPT ![handle] =
                          [alloc |-> TRUE, recv |-> recv, frame |-> ZeroFrame]]
              /\ frames' = [frames EXCEPT !.video[handle] = FALSE]
              /\ heap' = Given("video", handle)
              /\ loc' = [loc EXCEPT ![t].fp = handle,
                                    ![t].mtx = ReceiverMutex(loc[t].rp),
                                    ![t].next = "receiverCaptureVideo_capture"]
              /\ Goto(t, "lock")
              /\ UNCHANGED <<ah, ret, calls>>
    /\ UNCHANGED <<libVars, cacheVars, wrapVars, mutex, engine, pureVars>>

(* Lines 640-725: the capture under the wrapper's mutex, then, with the     *)
(* mutex released, the checks and the construction of the result.  A       *)
(* frame that cannot be handed out is released in receiverCaptureVideo_    *)
(* release, under the mutex again.  frame_type and frame are the engine's   *)
(* answer.                                                                  *)
receiverCaptureVideo_capture(t, frame_type, frame) ==
    /\ pc[t] = "receiverCaptureVideo_capture"
    /\ frame_type \in FrameTypes
    /\ frame \in Captured(frame_type, "video", VideoFrames)
    /\ Unlock(ReceiverMutex(loc[t].rp))
    /\ LET handle == loc[t].fp
       IN \E recv \in RecvField(loc[t].rp), byteBuffer \in BOOLEAN,
             videoObj \in BOOLEAN :
            LET captured == Call(t, "NDIlib_recv_capture_v2", recv,
                                 recv # NULL /\ engine.recvs[recv], frame_type,
                                 frame)
                rejected ==
                    IF VideoDataMissing(frame) THEN 1
                    ELSE IF InvalidBufferSize(BufferSize(frame)) THEN 2
                    ELSE IF ~byteBuffer THEN 3
                    ELSE IF ~videoObj THEN 4
                    ELSE 0
            IN IF NotRequested(frame_type, "video")
               THEN /\ vh' = [vh EXCEPT ![handle] = NoVideoHandle]
                    /\ heap' = Withdrawn("video", handle, vh[handle].alloc)
                    /\ Return(t, "null", 0, <<captured>>)
                    /\ UNCHANGED <<ah, frames>>
               ELSE /\ vh' = [vh EXCEPT ![handle].frame = frame]
                    /\ frames' = [frames EXCEPT !.video[handle] = TRUE]
                    /\ UNCHANGED <<ah, heap>>
                    /\ IF rejected # 0
                       THEN /\ calls' = Logged(t, captured)
                            /\ loc' = [loc EXCEPT
                                         ![t].path = rejected,
                                         ![t].next =
                                            "receiverCaptureVideo_release"]
                            /\ Goto(t, "lock")
                            /\ UNCHANGED ret
                       ELSE Return(t, "object", handle, <<captured>>)
    /\ UNCHANGED <<libVars, cacheVars, wrapVars, engine, pureVars>>

(* The frame not given back when the frame object could not be made. *)
GivesBack_UnlessObjectFailed(path) == path \in {1, 2, 3}

(* The four ways a captured frame is rejected (no data or invalid frame;   *)
(* no size or no interleaved buffer; no byte buffer; no frame object) all  *)
(* give the frame back: lines 660, 680, 690, 719 and 815, 829, 848, 870.   *)
GivesBack(path) == path \in {1, 2, 3, 4}

(* Lines 659-663, 679-683, 689-693 and 718-722: the frame goes back to the  *)
(* engine under the wrapper's mutex and the handle is freed.                *)
receiverCaptureVideo_release(t) ==
    /\ pc[t] = "receiverCaptureVideo_release"
    /\ LET handle == loc[t].fp
       IN \E recv \in RecvField(loc[t].rp) :
            /\ frames' = IF GivesBack(loc[t].path)
                          THEN [frames EXCEPT !.video[handle] = FALSE]
                          ELSE frames
            /\ Unlock(ReceiverMutex(loc[t].rp))
            /\ vh' = [vh EXCEPT ![handle] = NoVideoHandle]
            /\ heap' = Withdrawn("video", handle, vh[handle].alloc)
            /\ Return(t, "null", 0,
                      IF GivesBack(loc[t].path)
                      THEN <<Call(t, "NDIlib_recv_free_video_v2", recv,
                                  frames.video[handle], "video",
                                  vh[handle].frame)>>
                      ELSE <<>>)
    /\ UNCHANGED <<libVars, cacheVars, wrapVars, ah, engine, pureVars>>

(***************************************************************************)
(* receiverFreeVideo, lines 728-757.                                       *)
(***************************************************************************)
(* Lines 750 and 753, then 756: the frame in the handle is given to the     *)
(* engine, with the instance the handle names, and the handle is freed.     *)
(* The fields of a handle that has been freed already read as anything.     *)
VideoHandleReads(handle) ==
    FieldRead(vh[handle].alloc, vh[handle].recv, Instances \cup {NULL})
        \X FieldRead(vh[handle].alloc, vh[handle].frame,
                     VideoFrames \cup {ZeroFrame})

(* The call made only while the instance of the handle exists. *)
FreeVideoCalls_LiveOnly(t, read, handle) ==
    IF read[1] # NULL /\ engine.recvs[read[1]]
    THEN <<Call(t, "NDIlib_recv_free_video_v2", read[1], frames.video[handle],
                "video", read[2])>>
    ELSE <<>>

(* Lines 750 and 753: NDIlib_recv_free_video_v2(handle->recv, &handle->frame). *)
FreeVideoCalls(t, read, handle) ==
    <<Call(t, "NDIlib_recv_free_video_v2", read[1], frames.video[handle],
           "video", read[2])>>

(* Line 756: free(handle). *)
FreeVideoFrame(handle) ==
    /\ frames' = [frames EXCEPT !.video[handle] = FALSE]
    /\ vh' = [vh EXCEPT ![handle] = NoVideoHandle]
    /\ heap' = Freed("video", handle, vh[handle].alloc)
    /\ UNCHANGED ah

receiverFreeVideo(t, receiverPtr, framePtr) ==
    /\ IF framePtr = 0
       THEN /\ Immediate(t, "receiverFreeVideo", receiverPtr, framePtr, "void",
                         0)
            /\ UNCHANGED shared
       ELSE IF receiverPtr # 0
       THEN /\ Begin(t, "lock",
                     Locking("receiverFreeVideo", receiverPtr, framePtr,
                             ReceiverMutex(receiverPtr),
                             "receiverFreeVideo_locked"))
            /\ UNCHANGED shared
       ELSE /\ \E read \in VideoHandleReads(framePtr) :
                 Direct(t, "receiverFreeVideo", receiverPtr, framePtr, "void",
                        0, FreeVideoCalls(t, read, framePtr))
            /\ FreeVideoFrame(framePtr)
            /\ UNCHANGED <<libVars, cacheVars, wrapVars, mutex, engine>>
    /\ UNCHANGED pureVars

(* Lines 750-756 when the receiver handle is not zero. *)
receiverFreeVideo_locked(t) ==
    /\ pc[t] = "receiverFreeVideo_locked"
    /\ Unlock(ReceiverMutex(loc[t].rp))
    /\ \E read \in VideoHandleReads(loc[t].fp) :
          Return(t, "void", 0, FreeVideoCalls(t, read, loc[t].fp))
    /\ FreeVideoFrame(loc[t].fp)
    /\ UNCHANGED <<libVars, cacheVars, wrapVars, engine, pureVars>>

(***************************************************************************)
(* receiverCaptureAudio, lines 759-878.                                    *)
(***************************************************************************)
AudioFrame(p, rate, channels, samples) ==
    [ZeroFrame EXCEPT !.p_data = p, !.sample_rate = rate,
                      !.no_channels = channels, !.no_samples = samples]

AudioFrames ==
    {AudioFrame(1, 48000, 2, 2), AudioFrame(NULL, 48000, 2, 2),
     AudioFrame(1, 0, 2, 2), AudioFrame(1, 48000, 0, 2),
     AudioFrame(1, 48000, 2, 0), AudioFrame(1, 48000, -1, 2)}

(* A validity test that does not look at the sample count. *)
InvalidAudioFrame_AnySamples(frame) ==
    \/ frame.p_data = NULL
    \/ frame.sample_rate <= 0
    \/ frame.no_channels <= 0

(* Line 808. *)
InvalidAudioFrame(frame) ==
    \/ frame.p_data = NULL
    \/ frame.sample_rate <= 0
    \/ frame.no_channels <= 0
    \/ frame.no_samples <= 0

receiverCaptureAudio(t, receiverPtr) ==
    /\ IF receiverPtr = 0
       THEN Immediate(t, "receiverCaptureAudio", receiverPtr, NULL, "null", 0)
       ELSE \E recv \in RecvField(receiverPtr) :
              IF recv = NULL
              THEN Immediate(t, "receiverCaptureAudio", receiverPtr, NULL,
                             "null", 0)
              ELSE EnsureCache(t, "receiverCaptureAudio", receiverPtr,
                               "receiverCaptureAudio_alloc")
    /\ UNCHANGED <<shared, pureVars>>

(* Lines 781-789: calloc, handle->recv = wrapper->recv, memset. *)
receiverCaptureAudio_alloc(t) ==
    /\ pc[t] = "receiverCaptureAudio_alloc"
    /\ \E handle \in FreeAudioAddrs \cup {NULL}, recv \in RecvField(loc[t].rp) :
         IF handle = NULL
         THEN /\ Return(t, "null", 0, <<>>)
              /\ UNCHANGED <<frameVars, heap>>
         ELSE /\ ah' = [ah EXCEPT ![handle] =
                          [alloc |-> TRUE, recv |-> recv, frame |-> ZeroFrame,
                           interleaved_data |-> NULL]]
              /\ frames' = [frames EXCEPT !.audio[handle] = FALSE]
              /\ heap' = Given("audio", handle)
              /\ loc' = [loc EXCEPT ![t].fp = handle,
                                    ![t].mtx = ReceiverMutex(loc[t].rp),
                                    ![t].next = "receiverCaptureAudio_capture"]
              /\ Goto(t, "lock")
              /\ UNCHANGED <<vh, ret, calls>>
    /\ UNCHANGED <<libVars, cacheVars, wrapVars, mutex, engine, pureVars>>

(* Lines 790-877: the capture under the wrapper's mutex, then, with the     *)
(* mutex released, the validation, malloc, the conversion and the          *)
(* construction of the result.  The successful path makes no further       *)
(* engine call: the frame stays in the handle.  frame_type and frame are   *)
(* the engine's answer.                                                     *)
receiverCaptureAudio_capture(t, frame_type, frame) ==
    /\ pc[t] = "receiverCaptureAudio_capture"
    /\ frame_type \in FrameTypes
    /\ frame \in Captured(frame_type, "audio", AudioFrames)
    /\ Unlock(ReceiverMutex(loc[t].rp))
    /\ LET handle == loc[t].fp
       IN \E recv \in RecvField(loc[t].rp), interleaved_data \in {NULL, 1},
             byteBuffer \in BOOLEAN, audioObj \in BOOLEAN :
            LET captured == Call(t, "NDIlib_recv_capture_v2", recv,
                                 recv # NULL /\ engine.recvs[recv], frame_type,
                                 frame)
                rejected ==
                    IF InvalidAudioFrame(frame) THEN 1
                    ELSE IF interleaved_data = NULL THEN 2
                    ELSE IF ~byteBuffer THEN 3
                    ELSE IF ~audioObj THEN 4
                    ELSE 0
            IN IF NotRequested(frame_type, "audio")
               THEN /\ ah' = [ah EXCEPT ![handle] = NoAudioHandle]
                    /\ heap' = Withdrawn("audio", handle, ah[handle].alloc)
                    /\ Return(t, "null", 0, <<captured>>)
                    /\ UNCHANGED <<vh, frames>>
               ELSE /\ ah' = [ah EXCEPT
                                ![handle].frame = frame,
                                ![handle].interleaved_data =
                                   IF rejected \in {0, 3, 4} THEN 1 ELSE NULL]
                    /\ frames' = [frames EXCEPT
                                    !.audio[handle] = TRUE,
                                    !.buffer[handle] = rejected \in {0, 3, 4}]
                    /\ UNCHANGED <<vh, heap>>
                    /\ IF rejected # 0
                       THEN /\ calls' = Logged(t, captured)
                            /\ loc' = [loc EXCEPT
                                         ![t].path = rejected,
                                         ![t].next =
                                            "receiverCaptureAudio_release"]
                            /\ Goto(t, "lock")
                            /\ UNCHANGED ret
                       ELSE Return(t, "object", handle, <<captured>>)
    /\ UNCHANGED <<libVars, cacheVars, wrapVars, engine, pureVars>>

(* Lines 814-818, 828-832, 847-852 and 869-874: the frame goes back to the  *)
(* engine under the wrapper's mutex; the interleaved buffer, if it was      *)
(* allocated (lines 850 and 872), and the handle are freed.                 *)
receiverCaptureAudio_release(t) ==
    /\ pc[t] = "receiverCaptureAudio_release"
    /\ LET handle == loc[t].fp
       IN \E recv \in RecvField(loc[t].rp) :
            /\ frames' = [frames EXCEPT
                            !.audio[handle] =
                               IF GivesBack(loc[t].path) THEN FALSE ELSE @,
                            !.buffer[handle] = FALSE]
            /\ Unlock(ReceiverMutex(loc[t].rp))
            /\ ah' = [ah EXCEPT ![handle] = NoAudioHandle]
            /\ heap' = Withdrawn("audio", handle, ah[handle].alloc)
            /\ Return(t, "null", 0,
                      IF GivesBack(loc[t].path)
                      THEN <<Call(t, "NDIlib_recv_free_audio_v2", recv,
                                  frames.audio[handle], "audio",
                                  ah[handle].frame)>>
                      ELSE <<>>)
    /\ UNCHANGED <<libVars, cacheVars, wrapVars, vh, engine, pureVars>>

(***************************************************************************)
(* receiverFreeAudio, lines 880-910.                                       *)
(***************************************************************************)
(* A free that gives nothing back to the engine. *)
FreeAudioCalls_None(t, recv, handle, frame) == <<>>

(* Lines 902 and 905: NDIlib_recv_free_audio_v2(handle->recv, &handle->frame). *)
FreeAudioCalls(t, recv, handle, frame) ==
    <<Call(t, "NDIlib_recv_free_audio_v2", recv, frames.audio[handle], "audio",
           frame)>>

(* Lines 902 and 905, then 908-909. *)
(* What the free reads in the handle: recv, frame and interleaved_data.     *)
(* The fields of a handle that has been freed already read as anything.     *)
AudioHandleReads(handle) ==
    FieldRead(ah[handle].alloc, ah[handle].recv, Instances \cup {NULL})
        \X FieldRead(ah[handle].alloc, ah[handle].frame,
                     AudioFrames \cup {ZeroFrame})
        \X FieldRead(ah[handle].alloc, ah[handle].interleaved_data, {NULL, 1})

(* Lines 908-909: free(handle->interleaved_data); free(handle). *)
FreeAudioFrame(handle, interleaved_data) ==
    /\ frames' = [frames EXCEPT !.audio[handle] = FALSE,
                                !.buffer[handle] = FALSE]
    /\ ah' = [ah EXCEPT ![handle] = NoAudioHandle]
    /\ heap' = [Freed("audio", handle, ah[handle].alloc) EXCEPT
                   !.twice =
                      @ \cup (IF interleaved_data # NULL
                                 /\ ~frames.buffer[handle]
                              THEN {<<"buffer", handle>>} ELSE {})]
    /\ UNCHANGED vh

receiverFreeAudio(t, receiverPtr, framePtr) ==
    /\ IF framePtr = 0
       THEN /\ Immediate(t, "receiverFreeAudio", receiverPtr, framePtr, "void",
                         0)
            /\ UNCHANGED shared
       ELSE IF receiverPtr # 0
       THEN /\ Begin(t, "lock",
                     Locking("receiverFreeAudio", receiverPtr, framePtr,
                             ReceiverMutex(receiverPtr),
                             "receiverFreeAudio_locked"))
            /\ UNCHANGED shared
       ELSE /\ \E read \in AudioHandleReads(framePtr) :
                 /\ Direct(t, "receiverFreeAudio", receiverPtr, framePtr,
                           "void", 0,
                           FreeAudioCalls(t, read[1], framePtr, read[2]))
                 /\ FreeAudioFrame(framePtr, read[3])
            /\ UNCHANGED <<libVars, cacheVars, wrapVars, mutex, engine>>
    /\ UNCHANGED pureVars

(* Lines 902-909 when the receiver handle is not zero. *)
receiverFreeAudio_locked(t) ==
    /\ pc[t] = "receiverFreeAudio_locked"
    /\ Unlock(ReceiverMutex(loc[t].rp))
    /\ \E read \in AudioHandleReads(loc[t].fp) :
          /\ Return(t, "void", 0,
                    FreeAudioCalls(t, read[1], loc[t].fp, read[2]))
          /\ FreeAudioFrame(loc[t].fp, read[3])
    /\ UNCHANGED <<libVars, cacheVars, wrapVars, engine, pureVars>>

(***************************************************************************)
(* The initial state: the process has loaded the library and no call has   *)
(* been made.                                                              *)
(***************************************************************************)
EngineDown ==
    [up |-> FALSE, finders |-> [i \in Instances |-> FALSE],
     recvs |-> [i \in Instances |-> FALSE], windows |-> 0]

NoInput == [kind |-> "none"]
NoOutput == [done |-> FALSE, val |-> 0]

(* Everything but the library's own state and the last call. *)
InitWrapper ==
    /\ g_jni_cache = [initialized |-> 0, refs |-> {}]
    /\ mutex = [m \in MutexIds |-> NoThread]
    /\ minit = {g_init_mutex, g_jni_cache_mutex}
    /\ finderW = [a \in FinderAddrs |-> NoFinderW]
    /\ recvW = [a \in ReceiverAddrs |-> NoRecvW]
    /\ vh = [a \in VideoAddrs |-> NoVideoHandle]
    /\ ah = [a \in AudioAddrs |-> NoAudioHandle]
    /\ frames = [video |-> [a \in VideoAddrs |-> FALSE],
                 audio |-> [a \in AudioAddrs |-> FALSE],
                 buffer |-> [a \in AudioAddrs |-> FALSE]]
    /\ heap = [twice |-> {}, given |-> {}]
    /\ pc = [t \in Threads |-> "idle"]
    /\ loc = [t \in Threads |-> NoLoc]
    /\ calls = [t \in Threads |-> <<>>]

Loaded ==
    /\ InitWrapper
    /\ g_initialized = 0
    /\ engine = EngineDown
    /\ libLog = <<>>
    /\ ret = NoRet
    /\ fout = NoOutput

Init == Loaded /\ fin = NoInput

(***************************************************************************)
(* Handles a caller may pass.  A caller that keeps to the contract passes  *)
(* zero or a handle that a create has returned and no destroy has taken,   *)
(* and does not destroy an object that another call is using.              *)
(***************************************************************************)
FinderOps ==
    {"finderDestroy", "finderWaitForSources", "finderGetSources"}

InUseFinder(a) ==
    \E t \in Threads : pc[t] # "idle" /\ loc[t].op \in FinderOps /\ loc[t].rp = a
InUseReceiver(a) ==
    \E t \in Threads :
       pc[t] # "idle" /\ loc[t].op \notin FinderOps /\ loc[t].rp = a

LiveFinders == {a \in FinderAddrs : finderW[a].alloc /\ ~InUseFinder(a)}
LiveReceivers == {a \in ReceiverAddrs : recvW[a].alloc /\ ~InUseReceiver(a)}

(***************************************************************************)
(* Spec: threads initialize and destroy the library, query it and create   *)
(* finders and receivers, in any interleaving.                             *)
(***************************************************************************)
Lifecycle(t) ==
    \/ pthread_mutex_lock(t)
    \/ initialize(t)
    \/ initialize_locked(t)
    \/ initialize_set(t)
    \/ destroy(t)
    \/ destroy_locked(t)
    \/ destroy_clear(t)
    \/ isInitialized(t)
    \/ finderCreate(t)
    \/ finderCreate_call(t)
    \/ receiverCreate(t)
    \/ receiverCreate_call(t)

Next == \E t \in Threads : Lifecycle(t)

Spec == Init /\ [][Next]_vars

(***************************************************************************)
(* The other groups of operations.  F, R, V and A are the finder,          *)
(* receiver, video-frame and audio-frame handles the caller passes.        *)
(***************************************************************************)
LiveVideo ==
    {a \in VideoAddrs :
        vh[a].alloc /\ \A t \in Threads : pc[t] = "idle" \/ loc[t].fp # a}
LiveAudio ==
    {a \in AudioAddrs :
        ah[a].alloc /\ \A t \in Threads : pc[t] = "idle" \/ loc[t].fp # a}

Teardown(t, F, R) ==
    \/ \E finderPtr \in F : finderDestroy(t, finderPtr)
    \/ finderDestroy_locked(t)
    \/ \E receiverPtr \in R : receiverDestroy(t, receiverPtr)
    \/ receiverDestroy_locked(t)

Cache(t, K) == \E k \in K : ensure_jni_cache_locked(t, k)

CaptureVideo(t, R, T, VF) ==
    \/ \E receiverPtr \in R : receiverCaptureVideo(t, receiverPtr)
    \/ receiverCaptureVideo_alloc(t)
    \/ \E frame_type \in T, frame \in VF \cup {ZeroFrame} :
          receiverCaptureVideo_capture(t, frame_type, frame)
    \/ receiverCaptureVideo_release(t)

CaptureAudio(t, R, T, AF) ==
    \/ \E receiverPtr \in R : receiverCaptureAudio(t, receiverPtr)
    \/ receiverCaptureAudio_alloc(t)
    \/ \E frame_type \in T, frame \in AF \cup {ZeroFrame} :
          receiverCaptureAudio_capture(t, frame_type, frame)
    \/ receiverCaptureAudio_release(t)

ReleaseVideo(t, R, V) ==
    \/ \E receiverPtr \in R, framePtr \in V :
          receiverFreeVideo(t, receiverPtr, framePtr)
    \/ receiverFreeVideo_locked(t)

ReleaseAudio(t, R, A) ==
    \/ \E receiverPtr \in R, framePtr \in A :
          receiverFreeAudio(t, receiverPtr, framePtr)
    \/ receiverFreeAudio_locked(t)

WaitForSources(t, F) ==
    \/ \E finderPtr \in F : finderWaitForSources(t, finderPtr)
    \/ finderWaitForSources_locked(t)

Status(t, F, R, N) ==
    \/ \E finderPtr \in F : finderGetSources(t, finderPtr)
    \/ finderGetSources_locked(t)
    \/ \E receiverPtr \in R, sourceName \in SourceNames :
          receiverConnect(t, receiverPtr, sourceName)
    \/ receiverConnect_locked(t)
    \/ \E receiverPtr \in R : receiverDisconnect(t, receiverPtr)
    \/ receiverDisconnect_locked(t)
    \/ \E receiverPtr \in R : receiverIsConnected(t, receiverPtr)
    \/ receiverIsConnected_locked(t)
    \/ \E receiverPtr \in R : receiverGetPerformance(t, receiverPtr)
    \/ receiverGetPerformance_cached(t)
    \/ \E total \in N, dropped \in N :
          receiverGetPerformance_locked(t, total, dropped)
    \/ \E connections \in ConnectionCounts :
          receiverGetPerformance_count(t, connections)
    \/ \E receiverPtr \in R, surface \in Surfaces :
          receiverSetSurface(t, receiverPtr, surface)
    \/ receiverSetSurface_locked(t)

Query(t, F, R, N) == WaitForSources(t, F) \/ Status(t, F, R, N)

Creation(t) ==
    \/ pthread_mutex_lock(t)
    \/ finderCreate(t)
    \/ finderCreate_call(t)
    \/ receiverCreate(t)
    \/ receiverCreate_call(t)

(* The library functions; the caller destroys the library only when       *)
(* `quiet`.                                                                *)
Library(t, quiet) ==
    \/ initialize(t)
    \/ initialize_locked(t)
    \/ initialize_set(t)
    \/ quiet /\ destroy(t)
    \/ destroy_locked(t)
    \/ destroy_clear(t)
    \/ isInitialized(t)

(* No finder, receiver or frame is left. *)
NoObjects ==
    /\ \A a \in FinderAddrs : ~finderW[a].alloc
    /\ \A a \in ReceiverAddrs : ~recvW[a].alloc
    /\ \A a \in VideoAddrs : ~vh[a].alloc
    /\ \A a \in AudioAddrs : ~ah[a].alloc

(* The state after one successful initialize(). *)
Initialized ==
    /\ InitWrapper
    /\ g_initialized = 1
    /\ engine = [EngineDown EXCEPT !.up = TRUE]
    /\ libLog = <<[fn |-> "NDIlib_initialize", ok |-> TRUE, flag |-> 0,
                   held |-> {g_init_mutex}, up |-> FALSE]>>
    /\ ret = [NoRet EXCEPT !.t = 1, !.op = "initialize", !.kind = "bool",
                           !.val = JNI_TRUE]
    /\ fin = NoInput
    /\ fout = NoOutput

(***************************************************************************)
(* SpecApi: the library is initialized; one thread makes the calls that    *)
(* take a handle, in any order, passing zero or a handle it was given and  *)
(* has not destroyed or freed.  The engine answers a capture with the      *)
(* frame asked for or with none; the frame is a good one or has no data.   *)
(***************************************************************************)
ApiThreads == {1}

ApiFrameTypes == {"none", "video", "audio"}
ApiVideoFrames ==
    {VideoFrame(1, FOURCC_OTHER, -2, 2, 0), VideoFrame(NULL, FOURCC_OTHER, 2, 2, 0)}
ApiAudioFrames == {AudioFrame(1, 48000, 2, 2), AudioFrame(NULL, 48000, 2, 2)}
ApiCacheFailures == {0, 1}
ApiFrameCounts == {0, 3}

NextApi ==
    \E t \in ApiThreads :
       \/ Creation(t)
       \/ Teardown(t, LiveFinders \cup {NULL}, LiveReceivers \cup {NULL})
       \/ Cache(t, ApiCacheFailures)
       \/ CaptureVideo(t, LiveReceivers \cup {NULL}, ApiFrameTypes,
                       ApiVideoFrames)
       \/ CaptureAudio(t, LiveReceivers \cup {NULL}, ApiFrameTypes,
                       ApiAudioFrames)
       \/ ReleaseVideo(t, LiveReceivers \cup {NULL}, LiveVideo \cup {NULL})
       \/ ReleaseAudio(t, LiveReceivers \cup {NULL}, LiveAudio \cup {NULL})
       \/ Query(t, LiveFinders \cup {NULL}, LiveReceivers \cup {NULL},
                ApiFrameCounts)

SpecApi == Initialized /\ [][NextApi]_vars

(***************************************************************************)
(* SpecCalls: as SpecApi, and the thread also calls initialize, destroy    *)
(* and isInitialized, destroying the library only when it has destroyed    *)
(* and freed every object.                                                 *)
(***************************************************************************)
NextCalls ==
    \/ \E t \in ApiThreads : Library(t, NoObjects)
    \/ NextApi

SpecCalls == Initialized /\ [][NextCalls]_vars

(***************************************************************************)
(* SpecFrames: the library is initialized; one thread creates and destroys *)
(* receivers and captures and frees frames, keeping to the contract.  The  *)
(* engine answers a capture with any frame type, and with any of           *)
(* VideoFrames or AudioFrames when it is the type asked for.               *)
(***************************************************************************)
NextFrames ==
    \E t \in ApiThreads :
       \/ pthread_mutex_lock(t)
       \/ receiverCreate(t)
       \/ receiverCreate_call(t)
       \/ \E receiverPtr \in LiveReceivers : receiverDestroy(t, receiverPtr)
       \/ receiverDestroy_locked(t)
       \/ Cache(t, ApiCacheFailures)
       \/ CaptureVideo(t, LiveReceivers, FrameTypes, VideoFrames)
       \/ CaptureAudio(t, LiveReceivers, FrameTypes, AudioFrames)
       \/ ReleaseVideo(t, LiveReceivers \cup {NULL}, LiveVideo)
       \/ ReleaseAudio(t, LiveReceivers \cup {NULL}, LiveAudio)

SpecFrames == Initialized /\ [][NextFrames]_vars

(***************************************************************************)
(* SpecMisuse: as SpecApi for creation, capture, free and destroy, but the *)
(* thread may pass to a destroy or a free any handle it was given, also    *)
(* one it has destroyed or freed before.                                   *)
(***************************************************************************)
GivenHandles(kind) == {h[2] : h \in {g \in heap.given : g[1] = kind}}

NextMisuse ==
    \E t \in ApiThreads :
       \/ Creation(t)
       \/ Teardown(t, GivenHandles("finder"), GivenHandles("recv"))
       \/ Cache(t, ApiCacheFailures)
       \/ CaptureVideo(t, LiveReceivers, ApiFrameTypes, ApiVideoFrames)
       \/ CaptureAudio(t, LiveReceivers, ApiFrameTypes, ApiAudioFrames)
       \/ ReleaseVideo(t, LiveReceivers \cup {NULL}, GivenHandles("video"))
       \/ ReleaseAudio(t, LiveReceivers \cup {NULL}, GivenHandles("audio"))

SpecMisuse == Initialized /\ [][NextMisuse]_vars

(***************************************************************************)
(* SpecConc: the library is initialized and a finder and two receivers     *)
(* have been created; the threads capture and free frames, on the same     *)
(* receiver or on different ones, in any interleaving.  No object is       *)
(* destroyed.                                                              *)
(***************************************************************************)
Running ==
    /\ g_jni_cache = [initialized |-> 0, refs |-> {}]
    /\ mutex = [m \in MutexIds |-> NoThread]
    /\ minit = {g_init_mutex, g_jni_cache_mutex, FinderMutex(1),
                ReceiverMutex(1), ReceiverMutex(2)}
    /\ finderW = [a \in FinderAddrs |->
                    IF a = 1 THEN [alloc |-> TRUE, finder |-> 1] ELSE NoFinderW]
    /\ recvW = [a \in ReceiverAddrs |->
                  IF a <= 2
                  THEN [alloc |-> TRUE, recv |-> a, surface_window |-> NULL]
                  ELSE NoRecvW]
    /\ vh = [a \in VideoAddrs |-> NoVideoHandle]
    /\ ah = [a \in AudioAddrs |-> NoAudioHandle]
    /\ frames = [video |-> [a \in VideoAddrs |-> FALSE],
                 audio |-> [a \in AudioAddrs |-> FALSE],
                 buffer |-> [a \in AudioAddrs |-> FALSE]]
    /\ heap = [twice |-> {},
               given |-> {<<"finder", 1>>, <<"recv", 1>>, <<"recv", 2>>}]
    /\ pc = [t \in Threads |-> "idle"]
    /\ loc = [t \in Threads |-> NoLoc]
    /\ calls = [t \in Threads |-> <<>>]
    /\ g_initialized = 1
    /\ engine = [up |-> TRUE,
                 finders |-> [i \in Instances |-> i = 1],
                 recvs |-> [i \in Instances |-> i <= 2],
                 windows |-> 0]
    /\ libLog = <<[fn |-> "NDIlib_initialize", ok |-> TRUE, flag |-> 0,
                   held |-> {g_init_mutex}, up |-> FALSE]>>
    /\ ret = [NoRet EXCEPT
                 !.t = 1, !.op = "receiverCreate", !.kind = "handle",
                 !.val = 2,
                 !.calls = <<[fn |-> "NDIlib_recv_create_v3", inst |-> 2,
                              held |-> {}, flag |-> 1, live |-> TRUE,
                              ftype |-> "", frame |-> ZeroFrame, n |-> 0,
                              m |-> 0, src |-> {}]>>]
    /\ fin = NoInput
    /\ fout = NoOutput

Finders == {a \in FinderAddrs : finderW[a].alloc}
Receivers == {a \in ReceiverAddrs : recvW[a].alloc}

ConcFrameTypes == {"none", "video", "audio"}
ConcVideoFrames == {VideoFrame(1, FOURCC_OTHER, 2, 2, 0)}
ConcAudioFrames == {AudioFrame(1, 48000, 2, 2)}

NextConc ==
    \E t \in Threads :
       \/ pthread_mutex_lock(t)
       \/ Cache(t, {0})
       \/ CaptureVideo(t, Receivers, ConcFrameTypes, ConcVideoFrames)
       \/ CaptureAudio(t, Receivers, ConcFrameTypes, ConcAudioFrames)
       \/ ReleaseVideo(t, Receivers, LiveVideo)
       \/ ReleaseAudio(t, Receivers, LiveAudio)

SpecConc == Running /\ [][NextConc]_vars

(***************************************************************************)
(* SpecSink: two receivers exist; one thread sets and clears their         *)
(* surfaces, destroys them and creates them again.                         *)
(***************************************************************************)
NextSink ==
    \E t \in ApiThreads :
       \/ pthread_mutex_lock(t)
       \/ \E receiverPtr \in LiveReceivers \cup {NULL}, surface \in Surfaces :
             receiverSetSurface(t, receiverPtr, surface)
       \/ receiverSetSurface_locked(t)
       \/ \E receiverPtr \in LiveReceivers \cup {NULL} :
             receiverDestroy(t, receiverPtr)
       \/ receiverDestroy_locked(t)
       \/ receiverCreate(t)
       \/ receiverCreate_call(t)

SpecSink == Running /\ [][NextSink]_vars

(***************************************************************************)
(* SpecCache: the threads call receiverGetPerformance on a receiver; the   *)
(* resolution of the cache succeeds or fails at any of its steps.          *)
(***************************************************************************)
CacheSteps == 0 .. Len(CacheGlobals)

NextCache ==
    \E t \in Threads :
       \/ pthread_mutex_lock(t)
       \/ Cache(t, CacheSteps)
       \/ receiverGetPerformance(t, 1)
       \/ receiverGetPerformance_cached(t)
       \/ receiverGetPerformance_locked(t, 0, 0)
       \/ \E connections \in ConnectionCounts :
             receiverGetPerformance_count(t, connections)

SpecCache == Running /\ [][NextCache]_vars

(***************************************************************************)
(* SpecSnap: the threads read the performance of a receiver while they     *)
(* connect and disconnect it, capture video from it and free the frames.   *)
(***************************************************************************)
NextSnap ==
    \E t \in Threads :
       \/ pthread_mutex_lock(t)
       \/ Cache(t, {0})
       \/ receiverGetPerformance(t, 1)
       \/ receiverGetPerformance_cached(t)
       \/ receiverGetPerformance_locked(t, 3, 1)
       \/ \E connections \in ConnectionCounts :
             receiverGetPerformance_count(t, connections)
       \/ receiverConnect(t, 1, {"cam"})
       \/ receiverConnect_locked(t)
       \/ receiverDisconnect(t, 1)
       \/ receiverDisconnect_locked(t)
       \/ CaptureVideo(t, {1}, ConcFrameTypes, ConcVideoFrames)
       \/ ReleaseVideo(t, {1}, LiveVideo)

SpecSnap == Running /\ [][NextSnap]_vars

(***************************************************************************)
(* SpecLocks: the threads make calls that take g_init_mutex, calls that    *)
(* take g_jni_cache_mutex and then a receiver's mutex, and calls that take *)
(* the finder's mutex.  FairLocks adds that a thread that holds a mutex    *)
(* goes on: threads are scheduled, and an engine call made under a mutex   *)
(* returns, at its timeout at the latest.                                  *)
(***************************************************************************)
Thread(t) ==
    \/ pthread_mutex_lock(t)
    \/ initialize(t)
    \/ initialize_locked(t)
    \/ Cache(t, {0, 1})
    \/ receiverGetPerformance(t, 1)
    \/ receiverGetPerformance_cached(t)
    \/ receiverGetPerformance_locked(t, 0, 0)
    \/ receiverGetPerformance_count(t, 1)
    \/ CaptureVideo(t, {2}, {"none", "video"}, ConcVideoFrames)
    \/ finderWaitForSources(t, 1)
    \/ finderWaitForSources_locked(t)

NextLocks == \E t \in Threads : Thread(t)

SpecLocks == Running /\ [][NextLocks]_vars

FairLocks ==
    SpecLocks /\ \A t \in Threads : WF_vars(Held(t) # {} /\ Thread(t))

(***************************************************************************)
(* The bandwidth and the colour format of a new receiver, lines 115-135.   *)
(* The enumerators of the engine's header stand for themselves.            *)
(***************************************************************************)
(* Lines 115-123. *)
map_bandwidth(bandwidth) ==
    CASE bandwidth = 0 -> "NDIlib_recv_bandwidth_metadata_only"
      [] bandwidth = 1 -> "NDIlib_recv_bandwidth_audio_only"
      [] bandwidth = 2 -> "NDIlib_recv_bandwidth_lowest"
      [] bandwidth = 3 -> "NDIlib_recv_bandwidth_highest"
      [] OTHER -> "NDIlib_recv_bandwidth_highest"

(* The switch without the cases 100 and 101. *)
map_color_format_Dense(colorFormat) ==
    CASE colorFormat = 0 -> "NDIlib_recv_color_format_BGRX_BGRA"
      [] colorFormat = 1 -> "NDIlib_recv_color_format_UYVY_BGRA"
      [] colorFormat = 2 -> "NDIlib_recv_color_format_RGBX_RGBA"
      [] colorFormat = 3 -> "NDIlib_recv_color_format_UYVY_RGBA"
      [] OTHER -> "NDIlib_recv_color_format_UYVY_BGRA"

(* Lines 125-135. *)
map_color_format(colorFormat) ==
    CASE colorFormat = 0 -> "NDIlib_recv_color_format_BGRX_BGRA"
      [] colorFormat = 1 -> "NDIlib_recv_color_format_UYVY_BGRA"
      [] colorFormat = 2 -> "NDIlib_recv_color_format_RGBX_RGBA"
      [] colorFormat = 3 -> "NDIlib_recv_color_format_UYVY_RGBA"
      [] colorFormat = 100 -> "NDIlib_recv_color_format_fastest"
      [] colorFormat = 101 -> "NDIlib_recv_color_format_best"
      [] OTHER -> "NDIlib_recv_color_format_UYVY_BGRA"

(***************************************************************************)
(* SpecMap: the two mappings, applied to a jint: the small ones, negative  *)
(* or not, and the two ends of the type.                                   *)
(***************************************************************************)
MaxSetting == 103

Settings == ((0 - MaxSetting) .. MaxSetting) \cup {IntMin, IntMax}

MapInputs ==
    [kind : {"map"}, fn : {"map_bandwidth", "map_color_format"}, x : Settings]

InitMap == Loaded /\ fin \in MapInputs

ComputeMap ==
    /\ ~fout.done
    /\ fout' = [done |-> TRUE,
                val |-> IF fin.fn = "map_bandwidth"
                        THEN map_bandwidth(fin.x)
                        ELSE map_color_format(fin.x)]
    /\ UNCHANGED <<shared, thrVars, fin>>

SpecMap == InitMap /\ [][ComputeMap]_vars

(***************************************************************************)
(* SpecBlock: from the same state, the thread Blocker calls the operations *)
(* that take a timeout, on the finder and on the first receiver, and the   *)
(* thread Caller calls the other operations on the same finder and the     *)
(* same receiver.                                                          *)
(***************************************************************************)
Blocker == 1
Caller == 2

NextBlock ==
    \/ \E t \in {Blocker, Caller} : pthread_mutex_lock(t)
    \/ \E t \in {Blocker, Caller} : Cache(t, {0})
    \/ WaitForSources(Blocker, Finders)
    \/ CaptureVideo(Blocker, {1}, ConcFrameTypes, ConcVideoFrames)
    \/ CaptureAudio(Blocker, {1}, ConcFrameTypes, ConcAudioFrames)
    \/ ReleaseVideo(Caller, {1}, LiveVideo)
    \/ ReleaseAudio(Caller, {1}, LiveAudio)
    \/ Status(Caller, Finders, {1}, {0})

SpecBlock == Running /\ [][NextBlock]_vars

(***************************************************************************)
(* SpecSize: the buffer size of lines 654-673 as a function of the frame   *)
(* the engine filled in.  The frame is drawn in the initial state; the one *)
(* step computes the size.                                                 *)
(***************************************************************************)
MaxStride == 1920
MaxYres == 1080
MaxSize == 4096

SizeTags == {FOURCC_H264, FOURCC_HEVC, FOURCC_OTHER, FOURCC_HEVC - 1, 0}

SizeInputs ==
    {[kind |-> "size", frame |-> VideoFrame(1, fourcc, stride, yres, size)] :
        fourcc \in SizeTags,
        stride \in {-MaxStride, -1, 0, 1, MaxStride},
        yres \in {-1, 0, 1, MaxYres},
        size \in {-1, 0, 1, MaxSize}}

InitSize == Loaded /\ fin \in SizeInputs

ComputeSize ==
    /\ ~fout.done
    /\ fout' = [done |-> TRUE, val |-> BufferSize(fin.frame)]
    /\ UNCHANGED <<shared, thrVars, fin>>

SpecSize == InitSize /\ [][ComputeSize]_vars

(***************************************************************************)
(* SpecPerf: the quality score of lines 943-954 as a function of the       *)
(* engine's answers and of the way the build evaluates line 947.  The      *)
(* answers are drawn in the initial state; the one step computes the       *)
(* score.  Shortfall lists the pairs up to a total of 24.                  *)
(***************************************************************************)
MaxTotal == 20

(* The counts are 64-bit and signed: next to the small ones, one far       *)
(* above every total and one far below 0.                                  *)
PerfCounts == (-1 .. MaxTotal + 1) \cup {IntMax, 0 - IntMax}

PerfInputs ==
    [kind : {"perf"}, build : Builds, conv : Conversions,
     connections : ConnectionCounts, total : -1 .. MaxTotal,
     dropped : PerfCounts]

InitPerf == Loaded /\ fin \in PerfInputs

ComputeQuality ==
    /\ ~fout.done
    /\ fout' = [done |-> TRUE,
                val |-> Quality(fin.build, fin.conv, fin.connections,
                                fin.total, fin.dropped)]
    /\ UNCHANGED <<shared, thrVars, fin>>

SpecPerf == InitPerf /\ [][ComputeQuality]_vars

(***************************************************************************)
(* SpecAudio: the conversion of lines 821-842 as a function of the frame   *)
(* the engine filled in and of the memory p_data points to.  Memory is     *)
(* bytes; a float is the 4 bytes from its address on.  In the image        *)
(* "offsets" every byte holds its own offset from p_data, so that the      *)
(* result tells which bytes were read; the image "example" holds the       *)
(* channels 1, 2, 3, 4 and 10, 20, 30, 40, 16 bytes apart, a float of      *)
(* value v being the bytes v, 0, 0, 0.                                     *)
(***************************************************************************)
MaxChannels == 2
MaxSamples == 4

Images == {"offsets", "example"}

ExampleFloats == <<1, 2, 3, 4, 10, 20, 30, 40>>

Byte(image, offset) ==
    IF image = "offsets"
    THEN offset
    ELSE IF offset % 4 = 0 /\ offset \div 4 < Len(ExampleFloats)
         THEN ExampleFloats[offset \div 4 + 1]
         ELSE 0

(* Line 839: the float at base + offset. *)
Float(image, offset) ==
    <<Byte(image, offset), Byte(image, offset + 1), Byte(image, offset + 2),
      Byte(image, offset + 3)>>

(* What malloc returns holds anything. *)
Unwritten == <<-1, -1, -1, -1>>

(* An index of line 840 taken by channel, as the planar frame has it. *)
InterleavedIndex_Planar(s, c, channels, samples_per_channel) ==
    c * samples_per_channel + s

(* Line 840: ((size_t)s * (size_t)channels) + (size_t)c *)
InterleavedIndex(s, c, channels, samples_per_channel) == s * channels + c

(* Lines 837-842: the two loops, from the iteration s, c on.  Sequences    *)
(* count from 1.                                                           *)
RECURSIVE Interleave(_, _, _, _)
Interleave(in, interleaved_data, s, c) ==
    IF s >= in.samples
    THEN interleaved_data
    ELSE IF c >= in.channels
    THEN Interleave(in, interleaved_data, s + 1, 0)
    ELSE LET channel_ptr == c * in.stride
             index == InterleavedIndex(s, c, in.channels, in.samples)
         IN Interleave(in,
                       [interleaved_data EXCEPT
                          ![index + 1] = Float(in.image, channel_ptr + 4 * s)],
                       s, c + 1)

(* Lines 821-842: total_samples, bytes, malloc and the loops. *)
Converted(in) ==
    LET total_samples == in.channels * in.samples
        bytes == total_samples * 4
    IN [interleaved_bytes |-> bytes,
        interleaved_data |->
            Interleave(in, [k \in 1 .. total_samples |-> Unwritten], 0, 0)]

(* The channel stride is what the engine says: the channels may lie one    *)
(* after the other, apart, at addresses that are no multiple of 4, or on   *)
(* top of each other.                                                      *)
AudioInputs ==
    [kind : {"audio"}, image : Images, channels : 1 .. MaxChannels,
     samples : 1 .. MaxSamples, stride : {0, 4, 6, 8, 16, 20}]

InitAudio == Loaded /\ fin \in AudioInputs

ConvertAudio ==
    /\ ~fout.done
    /\ fout' = [done |-> TRUE, val |-> Converted(fin)]
    /\ UNCHANGED <<shared, thrVars, fin>>

SpecAudio == InitAudio /\ [][ConvertAudio]_vars

(***************************************************************************)
(* C1 (as claimed).  No handle is created while the library is             *)
(* uninitialized: a finderCreate or receiverCreate that made no engine     *)
(* call returned 0, and one that returned a non-zero handle made its       *)
(* engine create call while g_initialized was 1.                           *)
(***************************************************************************)
CreateCalls == {"NDIlib_find_create_v2", "NDIlib_recv_create_v3"}

C1_CreatedOnlyWhileInitialized ==
    ret.op \in {"finderCreate", "receiverCreate"} =>
        /\ ret.calls = <<>> => ret.val = NULL
        /\ ret.val # NULL =>
             \A i \in 1 .. Len(ret.calls) :
                ret.calls[i].fn \in CreateCalls => ret.calls[i].flag = 1

(***************************************************************************)
(* C2 (as claimed).  NDIlib_initialize is invoked only with the flag 0 and *)
(* NDIlib_destroy only with the flag 1, and the invocations of the two     *)
(* strictly alternate: no two consecutive engine library calls are calls   *)
(* of the same function.                                                   *)
(***************************************************************************)
C2_FlagAtLibCall ==
    \A i \in 1 .. Len(libLog) :
       /\ libLog[i].held = {g_init_mutex}
       /\ libLog[i].fn = "NDIlib_initialize" => libLog[i].flag = 0
       /\ libLog[i].fn = "NDIlib_destroy" => libLog[i].flag = 1

C2_InvocationsAlternate ==
    /\ C2_FlagAtLibCall
    /\ Len(libLog) = 2 => libLog[1].fn # libLog[2].fn

(***************************************************************************)
(* C2 (amended).  NDIlib_initialize is invoked only with the flag 0 and    *)
(* NDIlib_destroy only with the flag 1, both under g_init_mutex; the       *)
(* successful NDIlib_initialize calls and the NDIlib_destroy calls         *)
(* strictly alternate (a NDIlib_initialize that fails leaves the flag 0    *)
(* and may be followed by another one); an initialize that finds the       *)
(* library initialized returns true, makes no engine call and leaves the   *)
(* flag 1; a destroy that finds it uninitialized changes nothing.          *)
(***************************************************************************)
C2_SuccessesAlternate ==
    \A i \in 1 .. Len(libLog) :
       /\ libLog[i].fn = "NDIlib_initialize" /\ libLog[i].ok => ~libLog[i].up
       /\ libLog[i].fn = "NDIlib_destroy" => libLog[i].up

C2_RepeatedCallStep ==
    \A t \in Threads :
       /\ pc[t] = "initialize_locked" /\ g_initialized = 1 /\ pc'[t] # pc[t] =>
            /\ pc'[t] = "idle"
            /\ ret'.op = "initialize" /\ ret'.val = JNI_TRUE /\ ret'.calls = <<>>
            /\ g_initialized' = 1
            /\ UNCHANGED <<libLog, engine>>
       /\ pc[t] = "destroy_locked" /\ g_initialized = 0 /\ pc'[t] # pc[t] =>
            /\ pc'[t] = "idle"
            /\ ret'.op = "destroy" /\ ret'.calls = <<>>
            /\ UNCHANGED <<g_initialized, libLog, engine, g_jni_cache, minit,
                           finderW, recvW, vh, ah, frames, heap>>

C2_Idempotent ==
    /\ [](C2_FlagAtLibCall /\ C2_SuccessesAlternate)
    /\ [][C2_RepeatedCallStep]_vars

(* C2's case: after a failed and then a successful NDIlib_initialize, a     *)
(* further initialize has returned true without an engine call.             *)
C2_Witness ==
    /\ Len(libLog) = 2
    /\ libLog[1].fn = "NDIlib_initialize" /\ ~libLog[1].ok
    /\ libLog[2].fn = "NDIlib_initialize" /\ libLog[2].ok
    /\ ret.op = "initialize" /\ ret.calls = <<>> /\ ret.val = JNI_TRUE
    /\ g_initialized = 1

(***************************************************************************)
(* What the claims about single calls read: the last call's engine calls.  *)
(***************************************************************************)
CallsOf(fns) == {i \in 1 .. Len(ret.calls) : ret.calls[i].fn \in fns}

ReleaseCalls ==
    {"NDIlib_find_destroy", "NDIlib_recv_destroy", "NDIlib_recv_free_video_v2",
     "NDIlib_recv_free_audio_v2"}

DestroyOps ==
    {"finderDestroy", "receiverDestroy", "receiverFreeVideo", "receiverFreeAudio"}

(***************************************************************************)
(* C3 (as claimed).  A destroy or a free called again on a handle that was *)
(* destroyed or freed before does not free twice: no struct and no buffer  *)
(* is given to free() while it is free, and every engine instance or frame *)
(* a destroy or a free releases is one the engine still holds.             *)
(***************************************************************************)
C3_NoDoubleFree ==
    /\ heap.twice = {}
    /\ ret.op \in DestroyOps =>
          \A i \in CallsOf(ReleaseCalls) : ret.calls[i].live

(***************************************************************************)
(* C4.  An operation given the zero handle (a free: the zero frame handle, *)
(* whatever the receiver handle) returns its absent value, void, false or  *)
(* a NULL reference, NULL also for getSources, having made no engine call; *)
(* the step that makes the call takes no mutex and changes no state.       *)
(***************************************************************************)
VoidOps ==
    {"finderDestroy", "receiverDestroy", "receiverDisconnect",
     "receiverFreeVideo", "receiverFreeAudio"}
BoolOps ==
    {"finderWaitForSources", "receiverConnect", "receiverIsConnected",
     "receiverSetSurface"}
ObjectOps ==
    {"finderGetSources", "receiverCaptureVideo", "receiverCaptureAudio",
     "receiverGetPerformance"}
FreeOps == {"receiverFreeVideo", "receiverFreeAudio"}

ZeroHandleCall(r) ==
    \/ r.op \in (VoidOps \cup BoolOps \cup ObjectOps) \ FreeOps /\ r.rp = 0
    \/ r.op \in FreeOps /\ r.fp = 0

C4_AbsentValue ==
    ZeroHandleCall(ret) =>
        /\ ret.calls = <<>>
        /\ ret.val = 0
        /\ ret.op \in VoidOps => ret.kind = "void"
        /\ ret.op \in BoolOps => ret.kind = "bool"
        /\ ret.op \in ObjectOps => ret.kind = "null"

C4_NoEffectStep ==
    ZeroHandleCall(ret') /\ ret' # ret =>
        UNCHANGED <<g_initialized, libLog, g_jni_cache, mutex, minit, finderW,
                    recvW, vh, ah, engine, frames, heap, pc, loc, calls>>

C4_ZeroHandleNoOp == []C4_AbsentValue /\ [][C4_NoEffectStep]_vars

(* C4's case: with a finder, a receiver and frames of both kinds live, a   *)
(* free was given a receiver and the zero frame handle.                    *)
C4_Witness ==
    /\ ret.op = "receiverFreeVideo" /\ ret.fp = 0 /\ ret.rp # 0
    /\ LiveFinders # {} /\ LiveVideo # {} /\ LiveAudio # {}
    /\ recvW[ret.rp].surface_window # NULL

(***************************************************************************)
(* C5.  captureVideo hands out a frame only when the engine gave a video   *)
(* frame with a data pointer and a computed size above 0; a video frame    *)
(* without a data pointer or with a computed size of 0 or less is given    *)
(* back to the engine exactly once, under the receiver's mutex, the handle *)
(* struct is freed and NULL is returned.                                   *)
(***************************************************************************)
VideoCaptured(i) ==
    /\ ret.calls[i].fn = "NDIlib_recv_capture_v2"
    /\ ret.calls[i].ftype = "video"

C5_MalformedVideoReleased ==
    ret.op = "receiverCaptureVideo" =>
        /\ ret.kind = "object" =>
              /\ CallsOf({"NDIlib_recv_free_video_v2"}) = {}
              /\ \E i \in 1 .. Len(ret.calls) :
                    /\ VideoCaptured(i)
                    /\ ret.calls[i].frame.p_data # NULL
                    /\ BufferSize(ret.calls[i].frame) > 0
                    /\ vh[ret.val].alloc /\ vh[ret.val].frame = ret.calls[i].frame
        /\ \A i \in 1 .. Len(ret.calls) :
              /\ VideoCaptured(i)
              /\ \/ ret.calls[i].frame.p_data = NULL
                 \/ BufferSize(ret.calls[i].frame) <= 0
              => /\ ret.kind = "null"
                 /\ Cardinality(CallsOf({"NDIlib_recv_free_video_v2"})) = 1
                 /\ \A j \in CallsOf({"NDIlib_recv_free_video_v2"}) :
                       /\ j > i
                       /\ ret.calls[j].held = {ReceiverMutex(ret.rp)}
                       /\ ret.calls[j].inst = ret.calls[i].inst
                       /\ ret.calls[j].frame = ret.calls[i].frame
                       /\ ret.calls[j].live
                 /\ ~vh[ret.fp].alloc /\ ~frames.video[ret.fp]
                 /\ <<"video", ret.fp>> \notin heap.twice

(* C5's case: a compressed frame with a data pointer and a byte size of 0   *)
(* (and a stride and a height above 0) was captured and given back.         *)
C5_Witness ==
    /\ ret.op = "receiverCaptureVideo" /\ ret.kind = "null"
    /\ Len(ret.calls) = 2
    /\ VideoCaptured(1)
    /\ ret.calls[1].frame.p_data # NULL
    /\ is_compressed(ret.calls[1].frame.FourCC)
    /\ ret.calls[1].frame.data_size_in_bytes = 0
    /\ ret.calls[1].frame.line_stride_in_bytes * ret.calls[1].frame.yres > 0
    /\ ret.calls[2].fn = "NDIlib_recv_free_video_v2"

(***************************************************************************)
(* C6.  captureAudio hands out a frame only when the engine gave an audio  *)
(* frame with a data pointer, a sample rate, a channel count and a sample  *)
(* count above 0; an audio frame that fails one of the four is given back  *)
(* to the engine exactly once, no interleaved buffer is left, the handle   *)
(* struct is freed and NULL is returned.                                   *)
(***************************************************************************)
AudioCaptured(i) ==
    /\ ret.calls[i].fn = "NDIlib_recv_capture_v2"
    /\ ret.calls[i].ftype = "audio"

ValidAudio(frame) ==
    /\ frame.p_data # NULL
    /\ frame.sample_rate > 0
    /\ frame.no_channels > 0
    /\ frame.no_samples > 0

C6_InvalidAudioReleased ==
    ret.op = "receiverCaptureAudio" =>
        /\ ret.kind = "object" =>
              \E i \in 1 .. Len(ret.calls) :
                 /\ AudioCaptured(i)
                 /\ ValidAudio(ret.calls[i].frame)
                 /\ ah[ret.val].alloc /\ ah[ret.val].frame = ret.calls[i].frame
        /\ \A i \in 1 .. Len(ret.calls) :
              AudioCaptured(i) /\ ~ValidAudio(ret.calls[i].frame)
              => /\ ret.kind = "null"
                 /\ Cardinality(CallsOf({"NDIlib_recv_free_audio_v2"})) = 1
                 /\ \A j \in CallsOf({"NDIlib_recv_free_audio_v2"}) :
                       /\ j > i
                       /\ ret.calls[j].held = {ReceiverMutex(ret.rp)}
                       /\ ret.calls[j].inst = ret.calls[i].inst
                       /\ ret.calls[j].frame = ret.calls[i].frame
                       /\ ret.calls[j].live
                 /\ ~ah[ret.fp].alloc /\ ~frames.audio[ret.fp]
                 /\ ~frames.buffer[ret.fp]
                 /\ ah[ret.fp].interleaved_data = NULL
                 /\ heap.twice = {}

(* C6's case: an audio frame that has everything but samples was captured  *)
(* and given back.                                                         *)
C6_Witness ==
    /\ ret.op = "receiverCaptureAudio" /\ ret.kind = "null"
    /\ Len(ret.calls) = 2
    /\ AudioCaptured(1)
    /\ ret.calls[1].frame.p_data # NULL
    /\ ret.calls[1].frame.sample_rate > 0
    /\ ret.calls[1].frame.no_channels > 0
    /\ ret.calls[1].frame.no_samples = 0
    /\ ret.calls[2].fn = "NDIlib_recv_free_audio_v2"

(***************************************************************************)
(* C7.  When the engine answers a capture with a frame type other than the *)
(* one asked for, captureVideo and captureAudio return NULL, have made no  *)
(* engine call but the capture, have freed the handle struct they had      *)
(* allocated, so that no frame and no buffer is outstanding for it, and    *)
(* hold no mutex; and no step of a capture changes a receiver wrapper or   *)
(* an engine instance.                                                     *)
(***************************************************************************)
CaptureOps == {"receiverCaptureVideo", "receiverCaptureAudio"}

Wanted(op) == IF op = "receiverCaptureVideo" THEN "video" ELSE "audio"

OtherCaptured(r) ==
    /\ r.op \in CaptureOps
    /\ \E i \in 1 .. Len(r.calls) :
          /\ r.calls[i].fn = "NDIlib_recv_capture_v2"
          /\ r.calls[i].ftype # Wanted(r.op)

C7_NothingOutstanding ==
    OtherCaptured(ret) =>
        /\ ret.kind = "null" /\ ret.val = 0
        /\ Len(ret.calls) = 1
        /\ ret.calls[1].held = {ReceiverMutex(ret.rp)}
        /\ mutex[ReceiverMutex(ret.rp)] = NoThread
        /\ heap.twice = {}
        /\ IF ret.op = "receiverCaptureVideo"
           THEN /\ vh[ret.fp] = NoVideoHandle
                /\ ~frames.video[ret.fp]
                /\ <<"video", ret.fp>> \notin heap.given
           ELSE /\ ah[ret.fp] = NoAudioHandle
                /\ ~frames.audio[ret.fp] /\ ~frames.buffer[ret.fp]
                /\ <<"audio", ret.fp>> \notin heap.given

C7_CaptureStep ==
    \/ ret' # ret /\ ret'.op \in CaptureOps
    \/ \E t \in Threads : pc'[t] # pc[t] /\ loc'[t].op \in CaptureOps

C7_ReceiverUnchanged == C7_CaptureStep => UNCHANGED <<recvW, engine, minit>>

C7_OtherFrameTypeNoEffect ==
    []C7_NothingOutstanding /\ [][C7_ReceiverUnchanged]_vars

(* C7's case: asked for audio, the engine answered with a video frame.     *)
C7_Witness ==
    /\ ret.op = "receiverCaptureAudio" /\ ret.kind = "null"
    /\ Len(ret.calls) = 1
    /\ ret.calls[1].fn = "NDIlib_recv_capture_v2"
    /\ ret.calls[1].ftype = "video"
    /\ ret.calls[1].live
    /\ ~ah[ret.fp].alloc

Magnitude(x) == IF x >= 0 THEN x ELSE 0 - x

C9_BufferSize ==
    fout.done /\ fin.kind = "size" =>
        LET f == fin.frame
        IN  /\ f.FourCC \in {FOURCC_H264, FOURCC_HEVC} =>
                  fout.val = f.data_size_in_bytes
            /\ f.FourCC \notin {FOURCC_H264, FOURCC_HEVC} =>
                  /\ fout.val = Magnitude(f.line_stride_in_bytes) * f.yres
                  /\ fout.val =
                        BufferSize([f EXCEPT !.line_stride_in_bytes = 0 - @])

(* C9's case: an uncompressed frame stored bottom-up, stride -1920 and 1080 *)
(* rows, with a byte size that is not its size.                             *)
C9_Witness ==
    /\ fout.done /\ fin.kind = "size"
    /\ fin.frame.FourCC = FOURCC_OTHER
    /\ fin.frame.line_stride_in_bytes = -1920
    /\ fin.frame.yres = 1080
    /\ fin.frame.data_size_in_bytes = 1
    /\ fout.val = 1920 * 1080

(***************************************************************************)
(* C10 (as claimed).  With a connection, a total above 0 and a dropped     *)
(* count of 0 or more, the quality is 100 * (1 - dropped / total) rounded  *)
(* to the nearest integer and clamped to 0 .. 100.                         *)
(***************************************************************************)
C10_QualityRounded ==
    /\ fout.done /\ fin.kind = "perf"
    /\ fin.connections > 0 /\ fin.total > 0 /\ fin.dropped >= 0
    => IF fin.dropped >= fin.total
       THEN fout.val = 0
       ELSE LET kept == 100 * (fin.total - fin.dropped)
            IN /\ fout.val \in 0 .. 100
               /\ 2 * Magnitude(fout.val * fin.total - kept) <= fin.total

(***************************************************************************)
(* C11.  Whatever connection count, total and dropped count the engine     *)
(* reports, dropped above total and totals of 0 or less included, the      *)
(* quality is in 0 .. 100; it is 0 when the connection count is 0 or less  *)
(* and 100 when the connection count is above 0 and the total is 0.        *)
(***************************************************************************)
C11_QualityInRange ==
    fout.done /\ fin.kind = "perf" =>
        /\ fout.val \in 0 .. 100
        /\ fin.connections <= 0 => fout.val = 0
        /\ fin.connections > 0 /\ fin.total = 0 => fout.val = 100

(* C11's case: with a connection, more frames dropped than totalled, so    *)
(* many more that the score before the clamp is no int.                    *)
C11_Witness ==
    /\ fout.done /\ fin.kind = "perf"
    /\ fin.connections > 0 /\ fin.total > 0 /\ fin.dropped > 100 * fin.total
    /\ Unrepresentable(fin.total, fin.dropped)
    /\ fout.val = 0

(***************************************************************************)
(* C12.  For a frame of C channels and S samples a channel the interleaved *)
(* buffer has C * S samples, and for every s below S and c below C the     *)
(* sample s * C + c of the buffer is sample s of channel c, the channel c  *)
(* lying c channel strides after p_data.                                   *)
(***************************************************************************)
C12_Interleaved ==
    fout.done /\ fin.kind = "audio" =>
        /\ Len(fout.val.interleaved_data) = fin.channels * fin.samples
        /\ fout.val.interleaved_bytes = 4 * fin.channels * fin.samples
        /\ \A s \in 0 .. fin.samples - 1, c \in 0 .. fin.channels - 1 :
              fout.val.interleaved_data[s * fin.channels + c + 1] =
                 <<Byte(fin.image, c * fin.stride + 4 * s),
                   Byte(fin.image, c * fin.stride + 4 * s + 1),
                   Byte(fin.image, c * fin.stride + 4 * s + 2),
                   Byte(fin.image, c * fin.stride + 4 * s + 3)>>

(* C12's case: the channels 1, 2, 3, 4 and 10, 20, 30, 40 have become      *)
(* 1, 10, 2, 20, 3, 30, 4, 40.                                             *)
C12_Witness ==
    /\ fout.done /\ fin.kind = "audio"
    /\ fin.image = "example" /\ fin.channels = 2 /\ fin.samples = 4
    /\ fin.stride = 16
    /\ fout.val.interleaved_data =
          <<<<1, 0, 0, 0>>, <<10, 0, 0, 0>>, <<2, 0, 0, 0>>, <<20, 0, 0, 0>>,
            <<3, 0, 0, 0>>, <<30, 0, 0, 0>>, <<4, 0, 0, 0>>, <<40, 0, 0, 0>>>>

(***************************************************************************)
(* C13.  A thread that waits for a mutex in an operation on one receiver   *)
(* never waits for a thread that is inside the engine's capture call on    *)
(* another receiver: a receiver's mutex is held only by a thread operating *)
(* on that receiver, and what two threads on different receivers can wait  *)
(* for each other on is g_jni_cache_mutex, which no thread holds during a  *)
(* capture.                                                                *)
(***************************************************************************)
CaptureLabels == {"receiverCaptureVideo_capture", "receiverCaptureAudio_capture"}

WaitsFor(t, u) == pc[t] = "lock" /\ u # t /\ mutex[loc[t].mtx] = u

C13_ReceiversIndependent ==
    /\ \A t \in Threads, u \in Threads :
          WaitsFor(t, u) /\ loc[t].rp # loc[u].rp =>
              /\ pc[u] \notin CaptureLabels
              /\ loc[t].mtx = g_jni_cache_mutex
    /\ \A a \in ReceiverAddrs, u \in Threads :
          mutex[ReceiverMutex(a)] = u =>
              pc[u] # "idle" /\ loc[u].rp = a
    /\ \A u \in Threads :
          pc[u] \in CaptureLabels => Held(u) = {ReceiverMutex(loc[u].rp)}

(* C13's case: the two threads are inside the engine's capture call at the *)
(* same time, one on each receiver.                                        *)
C13_Witness ==
    /\ pc[1] = "receiverCaptureVideo_capture"
    /\ pc[2] = "receiverCaptureAudio_capture"
    /\ loc[1].rp # loc[2].rp

(***************************************************************************)
(* C14 (as claimed).  An operation other than waitForSources,              *)
(* captureVideo and captureAudio never waits for a call of the engine      *)
(* that takes a timeout: where it waits for a mutex, the thread that holds *)
(* the mutex is not inside NDIlib_find_wait_for_sources or                 *)
(* NDIlib_recv_capture_v2.                                                 *)
(***************************************************************************)
TimeoutOps ==
    {"finderWaitForSources", "receiverCaptureVideo", "receiverCaptureAudio"}

TimeoutLabels == CaptureLabels \cup {"finderWaitForSources_locked"}

C14_OthersNeverWaitForTimeout ==
    \A t \in Threads, u \in Threads :
       WaitsFor(t, u) /\ loc[t].op \notin TimeoutOps =>
           pc[u] \notin TimeoutLabels

(***************************************************************************)
(* C15.  No mutex is held across a return: a thread that is in no call     *)
(* holds no mutex, whatever the call it has returned from and whatever the *)
(* path, and when no call is running no mutex is held.                     *)
(***************************************************************************)
C15_NoLockAcrossReturn ==
    /\ \A t \in Threads : pc[t] = "idle" => Held(t) = {}
    /\ (\A t \in Threads : pc[t] = "idle") =>
          \A m \in MutexIds : mutex[m] = NoThread
    /\ ret.t # NoThread => Held(ret.t) = {}

(* C15's case: finderGetSources has returned NULL on the error path of     *)
(* line 427, after the engine call under the finder's mutex, with the      *)
(* cache built under g_jni_cache_mutex before.                             *)
C15_Witness ==
    /\ ret.op = "finderGetSources" /\ ret.kind = "null"
    /\ Len(ret.calls) = 1
    /\ ret.calls[1].held = {FinderMutex(ret.rp)}
    /\ mutex[FinderMutex(ret.rp)] = NoThread
    /\ g_jni_cache.initialized = 1

(***************************************************************************)
(* C16 (as claimed).  receiverConnect returns false, having made no engine *)
(* call, when the receiver handle is zero or the source name is null or    *)
(* empty; otherwise it has made exactly one NDIlib_recv_connect call, with *)
(* that name, under the receiver's mutex, and returns true.                *)
(***************************************************************************)
NoName(src) == src = {} \/ src = {""}

ConnectedTo(r, src) ==
    /\ Len(r.calls) = 1
    /\ r.calls[1].fn = "NDIlib_recv_connect"
    /\ r.calls[1].ftype = "source"
    /\ r.calls[1].src = src
    /\ r.calls[1].held = {ReceiverMutex(r.rp)}
    /\ r.calls[1].live
    /\ r.calls[1].inst = recvW[r.rp].recv

C16_ConnectsUnlessNoName ==
    ret.op = "receiverConnect" =>
        IF ret.rp = 0 \/ NoName(ret.src)
        THEN ret.val = JNI_FALSE /\ ret.calls = <<>>
        ELSE ret.val = JNI_TRUE /\ ConnectedTo(ret, ret.src)

(***************************************************************************)
(* C16 (amended).  receiverConnect returns false, having made no engine    *)
(* call, when the receiver handle is zero or the source name is null or    *)
(* empty, and also when the name could not be copied for want of memory;   *)
(* when it returns true it has made exactly one NDIlib_recv_connect call,  *)
(* with the name it was given, under the receiver's mutex, and it returns  *)
(* either true or false.  receiverDisconnect on a receiver makes exactly   *)
(* one NDIlib_recv_connect call with no source, under the same mutex, each *)
(* time it is called; neither call changes the wrapper.                    *)
(***************************************************************************)
C16_ConnectReturn ==
    /\ ret.op = "receiverConnect" =>
          /\ ret.kind = "bool" /\ ret.val \in {JNI_FALSE, JNI_TRUE}
          /\ ret.rp = 0 \/ NoName(ret.src) => ret.val = JNI_FALSE
          /\ ret.val = JNI_FALSE => ret.calls = <<>>
          /\ ret.val = JNI_TRUE =>
                ~NoName(ret.src) /\ ConnectedTo(ret, ret.src)
    /\ ret.op = "receiverDisconnect" /\ ret.rp # 0 =>
          /\ Len(ret.calls) = 1
          /\ ret.calls[1].fn = "NDIlib_recv_connect"
          /\ ret.calls[1].ftype = "NULL" /\ ret.calls[1].src = {}
          /\ ret.calls[1].held = {ReceiverMutex(ret.rp)}
          /\ ret.calls[1].live
          /\ ret.calls[1].inst = recvW[ret.rp].recv

C16_ConnectStep ==
    ret' # ret /\ ret'.op \in {"receiverConnect", "receiverDisconnect"} =>
        UNCHANGED <<recvW, engine, minit, heap, frames>>

C16_ConnectAndDisconnect == []C16_ConnectReturn /\ [][C16_ConnectStep]_vars

(* C16's case: a connect with a name has returned true.                    *)
C16_Witness ==
    /\ ret.op = "receiverConnect" /\ ret.val = JNI_TRUE
    /\ ret.src = {"cam"}
    /\ ConnectedTo(ret, {"cam"})


(***************************************************************************)
(* C17: over any sequence of receiverSetSurface and receiverDestroy calls  *)
(* a receiver holds at most one window and every window acquired is        *)
(* released exactly once: by a later call with a NULL surface, by a later  *)
(* call that gets a new window, or by receiverDestroy.  A call with a NULL *)
(* surface returns JNI_TRUE and leaves no window.  A call returns          *)
(* JNI_FALSE only for a zero handle or when no window can be got from the  *)
(* surface, and then the window held before is still held and unreleased.  *)
(***************************************************************************)
Attached == {a \in ReceiverAddrs : recvW[a].alloc
                                     /\ recvW[a].surface_window # NULL}

ReleasesIn(made) ==
    Cardinality({i \in DOMAIN made : made[i].fn = "ANativeWindow_release"})

AcquiredIn(made) ==
    Cardinality({i \in DOMAIN made :
                    /\ made[i].fn = "ANativeWindow_fromSurface"
                    /\ made[i].inst # NULL})

(* The windows acquired and not released are the ones the receivers hold,  *)
(* and no release is of a window already released.                         *)
C17_WindowsHeld ==
    /\ engine.windows = Cardinality(Attached)
    /\ \A i \in DOMAIN ret.calls :
          ret.calls[i].fn = "ANativeWindow_release" => ret.calls[i].live

C17_SetSurfaceStep ==
    (ret' # ret /\ ret'.op = "receiverSetSurface" /\ ret'.rp # 0)
       => LET old == recvW[ret'.rp].surface_window
              new == recvW'[ret'.rp].surface_window
          IN /\ ret'.arg = NULL
                   => /\ ret'.val = JNI_TRUE
                      /\ new = NULL
                      /\ ReleasesIn(ret'.calls) = (IF old # NULL THEN 1 ELSE 0)
                      /\ AcquiredIn(ret'.calls) = 0
             /\ ret'.val = JNI_FALSE
                   => /\ ret'.arg # NULL
                      /\ AcquiredIn(ret'.calls) = 0
                      /\ ReleasesIn(ret'.calls) = 0
                      /\ new = old
                      /\ engine'.windows = engine.windows
             /\ (ret'.arg # NULL /\ ret'.val = JNI_TRUE)
                   => /\ new # NULL
                      /\ AcquiredIn(ret'.calls) = 1
                      /\ ReleasesIn(ret'.calls) = (IF old # NULL THEN 1 ELSE 0)

C17_DestroyStep ==
    (ret' # ret /\ ret'.op = "receiverDestroy" /\ ret'.rp # 0)
       => LET old == recvW[ret'.rp].surface_window
          IN /\ ReleasesIn(ret'.calls) = (IF old # NULL THEN 1 ELSE 0)
             /\ ~recvW'[ret'.rp].alloc

C17_ZeroHandleStep ==
    (ret' # ret /\ ret'.op = "receiverSetSurface" /\ ret'.rp = 0)
       => /\ ret'.val = JNI_FALSE
          /\ ret'.calls = <<>>
          /\ UNCHANGED <<recvW, engine>>

C17_SinkAccounting ==
    /\ [](C17_WindowsHeld)
    /\ [][C17_SetSurfaceStep /\ C17_DestroyStep /\ C17_ZeroHandleStep]_vars

(* A call failed to get a window and the receiver still holds the one it   *)
(* held, while the other receiver holds one as well.                       *)
C17_Witness ==
    /\ ret.op = "receiverSetSurface"
    /\ ret.rp # 0
    /\ ret.val = JNI_FALSE
    /\ recvW[ret.rp].alloc
    /\ recvW[ret.rp].surface_window # NULL
    /\ engine.windows = 2


(***************************************************************************)
(* C18: a finderCreate or receiverCreate that returns 0 (the library is    *)
(* not initialized, calloc fails, pthread_mutex_init fails or the engine   *)
(* creates nothing) has released everything it acquired: the live engine   *)
(* instances, the initialized mutexes and the wrapper structs are the ones *)
(* there were before the call.                                             *)
(***************************************************************************)
CreateOps == {"finderCreate", "receiverCreate"}

CreatedIn(made) ==
    Cardinality({i \in DOMAIN made :
                    /\ made[i].fn \in {"NDIlib_find_create_v2",
                                       "NDIlib_recv_create_v3"}
                    /\ made[i].inst # NULL})

DestroyedIn(made) ==
    Cardinality({i \in DOMAIN made :
                    made[i].fn \in {"NDIlib_find_destroy",
                                    "NDIlib_recv_destroy"}})

C18_FailedCreateStep ==
    (ret' # ret /\ ret'.op \in CreateOps /\ ret'.val = NULL)
       => /\ engine' = engine
          /\ minit' = minit
          /\ finderW' = finderW
          /\ recvW' = recvW
          /\ heap' = heap
          /\ DestroyedIn(ret'.calls) = CreatedIn(ret'.calls)

(* Every live engine instance and every initialized object mutex belongs   *)
(* to a wrapper struct that is allocated.                                  *)
C18_NothingOrphaned ==
    /\ \A i \in Instances :
          /\ engine.finders[i]
                => \E a \in FinderAddrs :
                      finderW[a].alloc /\ finderW[a].finder = i
          /\ engine.recvs[i]
                => \E a \in ReceiverAddrs :
                      recvW[a].alloc /\ recvW[a].recv = i
    /\ \A a \in FinderAddrs : FinderMutex(a) \in minit => finderW[a].alloc
    /\ \A a \in ReceiverAddrs : ReceiverMutex(a) \in minit => recvW[a].alloc

C18_CreateNeverLeaks ==
    /\ [](C18_NothingOrphaned)
    /\ [][C18_FailedCreateStep]_vars

(* finderCreate returned 0 after the engine had created a finder for it. *)
C18_Witness ==
    /\ ret.op = "finderCreate"
    /\ ret.val = NULL
    /\ CreatedIn(ret.calls) = 1
    /\ DestroyedIn(ret.calls) = 1


(***************************************************************************)
(* C19: the bandwidth 0, 1, 2, 3 becomes metadata-only, audio-only, lowest *)
(* and highest, and every other integer, the negative ones too, highest;   *)
(* the colour format 0, 1, 2, 3, 100, 101 becomes BGRX/BGRA, UYVY/BGRA,    *)
(* RGBX/RGBA, UYVY/RGBA, fastest and best, and every other integer, the    *)
(* negative ones and 4..99 too, UYVY/BGRA.                                 *)
(***************************************************************************)
Bandwidths ==
    <<"NDIlib_recv_bandwidth_metadata_only", "NDIlib_recv_bandwidth_audio_only",
      "NDIlib_recv_bandwidth_lowest", "NDIlib_recv_bandwidth_highest">>

ColorFormats ==
    <<"NDIlib_recv_color_format_BGRX_BGRA", "NDIlib_recv_color_format_UYVY_BGRA",
      "NDIlib_recv_color_format_RGBX_RGBA", "NDIlib_recv_color_format_UYVY_RGBA">>

C19_Mappings ==
    fout.done /\ fin.kind = "map" =>
        LET x == fin.x
        IN /\ fin.fn = "map_bandwidth" =>
                 fout.val = IF x \in 0 .. 3 THEN Bandwidths[x + 1]
                            ELSE "NDIlib_recv_bandwidth_highest"
           /\ fin.fn = "map_color_format" =>
                 fout.val =
                    IF x \in 0 .. 3 THEN ColorFormats[x + 1]
                    ELSE IF x = 100 THEN "NDIlib_recv_color_format_fastest"
                    ELSE IF x = 101 THEN "NDIlib_recv_color_format_best"
                    ELSE "NDIlib_recv_color_format_UYVY_BGRA"

(* The colour format 101, next to the ones that fall back. *)
C19_Witness ==
    /\ fout.done /\ fin.kind = "map"
    /\ fin.fn = "map_color_format"
    /\ fin.x = 101
    /\ fout.val = "NDIlib_recv_color_format_best"


(***************************************************************************)
(* C20: finderGetSources on a finder reads the engine's source list and    *)
(* copies every name while it holds the finder's mutex, which it releases  *)
(* after the last copy, so that the array returned has as many entries as  *)
(* the engine reported; when the engine reports no source the result is an *)
(* array of length 0 and not a failure value.                              *)
(***************************************************************************)
SourcesRead(r) ==
    r.op = "finderGetSources" /\ r.rp # 0 /\ r.calls # <<>>

Reported(r) == r.calls[1].n

Copies(r) == SubSeq(r.calls, 2, Len(r.calls))

(* As the claim has it: whatever the engine reports comes back as an array *)
(* of that length with every name in it.                                   *)
C20_SequenceOfReportedLength ==
    SourcesRead(ret)
       => /\ ret.kind = "array"
          /\ ret.val = Reported(ret)
          /\ \A k \in DOMAIN Copies(ret) : Copies(ret)[k].live

C20_UnderFinderMutex ==
    SourcesRead(ret)
       => /\ ret.calls[1].fn = "NDIlib_find_get_current_sources"
          /\ \A k \in DOMAIN ret.calls :
                ret.calls[k].held = {FinderMutex(ret.rp)}
          /\ mutex[FinderMutex(ret.rp)] # ret.t
          /\ ret.kind \in {"array", "null"}
          /\ ret.kind = "array"
                => /\ ret.val = Reported(ret)
                   /\ Len(Copies(ret)) = Reported(ret)
                   /\ \A k \in DOMAIN Copies(ret) :
                         /\ Copies(ret)[k].fn = "NewStringUTF"
                         /\ Copies(ret)[k].n = k - 1
          /\ ret.kind = "null" => Copies(ret) = <<>>

(* The array is made while the mutex is held, in the step that releases it. *)
C20_ReturnStep ==
    (ret' # ret /\ SourcesRead(ret'))
       => /\ mutex[FinderMutex(ret'.rp)] = ret'.t
          /\ mutex'[FinderMutex(ret'.rp)] = NoThread

C20_SourcesSnapshot ==
    /\ [](C20_UnderFinderMutex)
    /\ [][C20_ReturnStep]_vars

(* The engine reported two sources and the array has both names. *)
C20_Witness ==
    /\ SourcesRead(ret)
    /\ ret.kind = "array"
    /\ ret.val = MaxSources
    /\ Len(Copies(ret)) = MaxSources
    /\ \A k \in DOMAIN Copies(ret) : Copies(ret)[k].live


(***************************************************************************)
(* C21: g_jni_cache_initialized is set only after the three classes and    *)
(* the three constructors are resolved, so that the flag implies six       *)
(* references that are not NULL; a resolution that fails returns failure   *)
(* with the flag unset and g_jni_cache_mutex released, so that a later     *)
(* call resolves again; once the flag is set no call resolves.             *)
(***************************************************************************)
Resolving(t) == pc[t] = "ensure_jni_cache_locked"

C21_ReadyHasAllRefs == CacheReady => g_jni_cache.refs = AllCacheRefs

(* A call that ends inside ensure_jni_cache ends with the flag unset and   *)
(* the mutex free, and the caller gets its failure value.                  *)
C21_FailureStep ==
    \A t \in Threads :
       (Resolving(t) /\ pc'[t] = "idle")
          => /\ ~CacheReady'
             /\ mutex'[g_jni_cache_mutex] = NoThread
             /\ ret'.t = t /\ ret'.kind = "null" /\ ret'.calls = <<>>

(* A call made while the flag is unset goes to the resolution. *)
C21_RetryStep ==
    \A t \in Threads :
       (pc[t] = "idle" /\ pc'[t] # "idle" /\ ~CacheReady)
          => /\ loc'[t].mtx = g_jni_cache_mutex
             /\ loc'[t].next = "ensure_jni_cache_locked"

C21_ReadyStep == CacheReady => g_jni_cache' = g_jni_cache

C21_CacheResolution ==
    /\ [](C21_ReadyHasAllRefs)
    /\ [][C21_FailureStep /\ C21_RetryStep /\ C21_ReadyStep]_vars

(* A resolution failed after it had stored some of the references. *)
C21_Witness ==
    /\ ret.op = "receiverGetPerformance"
    /\ ret.rp # 0
    /\ ret.kind = "null"
    /\ ret.calls = <<>>
    /\ ~CacheReady
    /\ g_jni_cache.refs # {}
    /\ g_jni_cache.refs # AllCacheRefs


(***************************************************************************)
(* C26: with any number of threads in ensure_jni_cache at once, at most    *)
(* one thread at a time executes the resolution; a thread that gets        *)
(* g_jni_cache_mutex after another thread has set the flag returns success *)
(* without resolving again; so the references are written by at most one   *)
(* successful resolution.                                                  *)
(***************************************************************************)
FlagSet == g_jni_cache.initialized = 1

C26_OneResolver ==
    /\ Cardinality({t \in Threads : Resolving(t)}) <= 1
    /\ \A t \in Threads : Resolving(t) => mutex[g_jni_cache_mutex] = t

(* The thread that finds the flag set under the mutex goes on with its     *)
(* call and leaves the cache as it is.                                     *)
C26_RecheckStep ==
    \A t \in Threads :
       (Resolving(t) /\ pc'[t] # pc[t] /\ FlagSet)
          => /\ g_jni_cache' = g_jni_cache
             /\ pc'[t] = loc[t].cont
             /\ mutex'[g_jni_cache_mutex] = NoThread

(* The flag is set once, by a thread in the resolution, with the six       *)
(* references; nothing writes the cache afterwards.                        *)
C26_SetOnceStep ==
    /\ g_jni_cache' # g_jni_cache
          => /\ ~FlagSet
             /\ \E t \in Threads : Resolving(t) /\ ~Resolving(t)'
    /\ FlagSet' /\ ~FlagSet => g_jni_cache'.refs = AllCacheRefs

C26_DoubleCheckedLocking ==
    /\ [](C26_OneResolver)
    /\ [][C26_RecheckStep /\ C26_SetOnceStep]_vars

(* A thread holds the mutex for a resolution that another thread has done  *)
(* while this one waited for the mutex.                                    *)
C26_Witness ==
    \E t \in Threads :
       /\ Resolving(t)
       /\ FlagSet
       /\ mutex[g_jni_cache_mutex] = t


(***************************************************************************)
(* C22: every engine call on the instance of a finder or a receiver (wait, *)
(* get sources, connect, capture, free video, free audio, get performance, *)
(* get connections, destroy) is made by a thread that holds the mutex of   *)
(* the object that owns the instance, whatever the operation and its       *)
(* arguments, receiverFreeVideo and receiverFreeAudio with a zero receiver *)
(* handle or with another receiver's handle included.                      *)
(***************************************************************************)
FinderCalls ==
    {"NDIlib_find_wait_for_sources", "NDIlib_find_get_current_sources",
     "NDIlib_find_destroy"}

ReceiverCalls ==
    {"NDIlib_recv_connect", "NDIlib_recv_capture_v2",
     "NDIlib_recv_free_video_v2", "NDIlib_recv_free_audio_v2",
     "NDIlib_recv_get_performance", "NDIlib_recv_get_no_connections",
     "NDIlib_recv_destroy"}

(* The mutexes of the objects that own the instance of the call c. *)
OwnerMutexes(c) ==
    {FinderMutex(a) : a \in {b \in FinderAddrs :
                                /\ c.fn \in FinderCalls
                                /\ finderW[b].alloc
                                /\ finderW[b].finder = c.inst}}
      \cup {ReceiverMutex(a) : a \in {b \in ReceiverAddrs :
                                         /\ c.fn \in ReceiverCalls
                                         /\ recvW[b].alloc
                                         /\ recvW[b].recv = c.inst}}

C22_CallsUnderOwnerMutexStep ==
    (ret' # ret /\ ret'.op \notin CreateOps)
       => \A i \in DOMAIN ret'.calls :
             LET c == ret'.calls[i]
             IN c.fn \in FinderCalls \cup ReceiverCalls
                   => OwnerMutexes(c) \cap c.held # {}

C22_CallsUnderOwnerMutex == [][C22_CallsUnderOwnerMutexStep]_vars


(***************************************************************************)
(* C23: a frame handle keeps the engine instance of the receiver it was    *)
(* captured from, and receiverDestroy leaves the frame handles as they     *)
(* are: after a capture has returned a handle and the receiver has been    *)
(* destroyed, the handle refers to a destroyed instance, and               *)
(* receiverFreeVideo or receiverFreeAudio on it makes the engine's free    *)
(* call on that instance.                                                  *)
(***************************************************************************)
Destroyed(inst) == inst # NULL /\ ~engine.recvs[inst]

C23_DestroyKeepsHandlesStep ==
    (ret' # ret /\ ret'.op = "receiverDestroy")
       => /\ vh' = vh
          /\ ah' = ah
          /\ frames' = frames

C23_FreeOnHandleInstanceStep ==
    /\ (ret' # ret /\ ret'.op = "receiverFreeVideo" /\ ret'.fp # 0
          /\ vh[ret'.fp].alloc)
          => \E i \in DOMAIN ret'.calls :
                /\ ret'.calls[i].fn = "NDIlib_recv_free_video_v2"
                /\ ret'.calls[i].inst = vh[ret'.fp].recv
    /\ (ret' # ret /\ ret'.op = "receiverFreeAudio" /\ ret'.fp # 0
          /\ ah[ret'.fp].alloc)
          => \E i \in DOMAIN ret'.calls :
                /\ ret'.calls[i].fn = "NDIlib_recv_free_audio_v2"
                /\ ret'.calls[i].inst = ah[ret'.fp].recv

C23_HandlesOutliveReceiver ==
    [][C23_DestroyKeepsHandlesStep /\ C23_FreeOnHandleInstanceStep]_vars

(* receiverFreeVideo has given a frame back to an instance that            *)
(* receiverDestroy had destroyed.                                          *)
C23_Witness ==
    /\ ret.op = "receiverFreeVideo"
    /\ \E i \in DOMAIN ret.calls :
          /\ ret.calls[i].fn = "NDIlib_recv_free_video_v2"
          /\ ret.calls[i].live
          /\ Destroyed(ret.calls[i].inst)


(***************************************************************************)
(* C24: while the caller frees every frame handle it was given once, a     *)
(* frame the engine handed out to a capture is at every moment owned by    *)
(* one frame handle or has been given back to the engine once, on the      *)
(* paths that reject the frame (malformed frame, no byte buffer, no frame  *)
(* object) as well; every handle struct and every interleaved buffer       *)
(* allocated is freed once.                                                *)
(***************************************************************************)
InCall(kind, a) ==
    \E t \in Threads :
       /\ pc[t] # "idle"
       /\ loc[t].fp = a
       /\ loc[t].op = (IF kind = "video" THEN "receiverCaptureVideo"
                       ELSE "receiverCaptureAudio")

(* A frame that is out is in a handle struct that is allocated; a struct   *)
(* is allocated for a capture in progress or holds the frame of a handle   *)
(* the caller was given; nothing was freed twice or given back twice.      *)
C24_FramesOwned ==
    /\ \A a \in VideoAddrs :
          /\ frames.video[a] => vh[a].alloc
          /\ vh[a].alloc /\ ~InCall("video", a)
                => frames.video[a] /\ <<"video", a>> \in heap.given
    /\ \A a \in AudioAddrs :
          /\ frames.audio[a] \/ frames.buffer[a] => ah[a].alloc
          /\ ah[a].alloc /\ ~InCall("audio", a)
                => /\ frames.audio[a] /\ frames.buffer[a]
                   /\ <<"audio", a>> \in heap.given
    /\ heap.twice = {}
    /\ \A i \in DOMAIN ret.calls :
          ret.calls[i].fn \in {"NDIlib_recv_free_video_v2",
                               "NDIlib_recv_free_audio_v2"}
             => ret.calls[i].live

(* A capture that returns NULL has freed its handle struct and its buffer  *)
(* and has given back the frame it got, if it got one.                     *)
C24_FailedCaptureStep ==
    (ret' # ret /\ ret'.op \in CaptureOps /\ ret'.kind = "null"
       /\ ret'.fp # 0)
       => /\ ret'.op = "receiverCaptureVideo"
             => ~vh'[ret'.fp].alloc /\ ~frames'.video[ret'.fp]
          /\ ret'.op = "receiverCaptureAudio"
             => /\ ~ah'[ret'.fp].alloc
                /\ ~frames'.audio[ret'.fp] /\ ~frames'.buffer[ret'.fp]
          /\ Cardinality({i \in DOMAIN ret'.calls :
                             ret'.calls[i].fn \in
                                {"NDIlib_recv_free_video_v2",
                                 "NDIlib_recv_free_audio_v2"}})
                = Cardinality({i \in DOMAIN ret'.calls :
                                  /\ ret'.calls[i].fn = "NDIlib_recv_capture_v2"
                                  /\ ret'.calls[i].ftype = Wanted(ret'.op)})

C24_FrameOwnership ==
    /\ [](C24_FramesOwned)
    /\ [][C24_FailedCaptureStep]_vars

(* A video frame was captured and given back because no frame object could *)
(* be made for it, while an audio frame is out with the caller.            *)
C24_Witness ==
    /\ ret.op = "receiverCaptureVideo"
    /\ ret.kind = "null"
    /\ Len(ret.calls) = 2
    /\ ret.calls[1].frame.p_data # NULL
    /\ BufferSize(ret.calls[1].frame) > 0
    /\ ret.calls[2].fn = "NDIlib_recv_free_video_v2"
    /\ \E a \in LiveAudio : frames.audio[a]


(***************************************************************************)
(* C25: receiverGetPerformance reads the totals, the drops and the         *)
(* connection count in one critical section of the receiver's mutex: no    *)
(* other operation on the receiver (capture, connect, disconnect, free)    *)
(* makes its engine call between the two reads, so that the totals, the    *)
(* drops and the connection count the score is made of are of one engine   *)
(* state.                                                                  *)
(***************************************************************************)
BetweenReads(t) == pc[t] = "receiverGetPerformance_count"

(* The engine calls thread u makes in the step. *)
Made(u) ==
    IF Len(calls'[u]) > Len(calls[u])
    THEN SubSeq(calls'[u], Len(calls[u]) + 1, Len(calls'[u]))
    ELSE IF ret' # ret /\ ret'.t = u
    THEN SubSeq(ret'.calls, Len(calls[u]) + 1, Len(ret'.calls))
    ELSE <<>>

C25_MutexHeldBetweenReads ==
    \A t \in Threads :
       BetweenReads(t)
          => /\ mutex[ReceiverMutex(loc[t].rp)] = t
             /\ calls[t] # <<>>
             /\ calls[t][Len(calls[t])].fn = "NDIlib_recv_get_performance"
             /\ calls[t][Len(calls[t])].held = {ReceiverMutex(loc[t].rp)}

C25_NoCallBetweenReadsStep ==
    \A t \in Threads, u \in Threads :
       (BetweenReads(t) /\ u # t)
          => \A i \in DOMAIN Made(u) :
                Made(u)[i].fn \in ReceiverCalls
                   => Made(u)[i].inst # recvW[loc[t].rp].recv

(* The two reads are the two engine calls of the call, both under the      *)
(* mutex, and the score is made of what they reported.                     *)
C25_SnapshotStep ==
    (ret' # ret /\ ret'.op = "receiverGetPerformance" /\ ret'.calls # <<>>)
       => /\ Len(ret'.calls) = 2
          /\ ret'.calls[1].fn = "NDIlib_recv_get_performance"
          /\ ret'.calls[2].fn = "NDIlib_recv_get_no_connections"
          /\ \A i \in 1 .. 2 :
                ret'.calls[i].held = {ReceiverMutex(ret'.rp)}
          /\ ret'.kind = "object"
                => \E build \in Builds, conv \in Conversions :
                      ret'.val = Quality(build, conv, ret'.calls[2].n,
                                         ret'.calls[1].n, ret'.calls[1].m)

CachedOps == {"receiverCaptureVideo", "receiverGetPerformance"}

C27_AtMostOneMutex == \A t \in Threads : Cardinality(Held(t)) <= 1

C27_NeverLocksWhileHolding ==
    \A t \in Threads : pc[t] = "lock" => Held(t) = {}

C27_CacheBeforeReceiver ==
    \A t \in Threads :
       (pc[t] # "idle" /\ loc[t].op \in CachedOps
          /\ (\E a \in ReceiverAddrs : mutex[ReceiverMutex(a)] = t))
       => g_jni_cache.initialized = 1 /\ mutex[g_jni_cache_mutex] # t

C27_NoWaitCycle ==
    \A t \in Threads, u \in Threads :
       WaitsFor(t, u) => pc[u] \notin {"lock", "idle"}

C27_EventuallyReleased ==
    \A t \in Threads, m \in MutexIds : (mutex[m] = t) ~> (mutex[m] # t)

C27_OneMutexAtATime ==
    /\ [](C27_AtMostOneMutex /\ C27_NeverLocksWhileHolding
            /\ C27_CacheBeforeReceiver /\ C27_NoWaitCycle)
    /\ C27_EventuallyReleased

C27_Witness ==
    \E t \in Threads, u \in Threads :
       /\ Held(t) = {g_jni_cache_mutex}
       /\ loc[t].op \in CachedOps
       /\ \E a \in ReceiverAddrs : Held(u) = {ReceiverMutex(a)}
       /\ loc[u].op \in CachedOps
       /\ pc[u] # "idle"

====
